---- MODULE Spec2Model ----
(***************************************************************************)
(* A model of includegraph: the per-unit include graph builder and merge   *)
(* (includegraph.py), the TGF interchange codec (includegraph.py,          *)
(* tgf2graphviz.py) and the filtering engine (filtergraph.py).             *)
(*                                                                         *)
(* Text is modelled as sequences of one-character strings, so that the     *)
(* encoder, the shell-style tokenizer and the glob matcher work on what    *)
(* the code works on.                                                      *)
(***************************************************************************)
EXTENDS Integers, Sequences, FiniteSets, TLC

(***************************************************************************)
(* Characters and text helpers                                             *)
(***************************************************************************)
DQ == "\""
SQ == "'"
BS == "\\"
TAB == "\t"
SP == " "
HASH == "#"
SLASH == "/"
COMMA == ","
EQUALS == "="

\* str.strip() without arguments strips these; shlex splits on them.
Whitespace == {SP, TAB, "\n", "\r"}

\* The argument of every .strip("'\"") in the decoder.
QuoteChars == {SQ, DQ}

RECURSIVE LStrip(_, _)
LStrip(s, chars) ==
    IF s # <<>> /\ Head(s) \in chars THEN LStrip(Tail(s), chars) ELSE s

RECURSIVE RStrip(_, _)
RStrip(s, chars) ==
    IF s # <<>> /\ s[Len(s)] \in chars
    THEN RStrip(SubSeq(s, 1, Len(s) - 1), chars)
    ELSE s

Strip(s, chars) == RStrip(LStrip(s, chars), chars)

\* sep.join(items)
RECURSIVE Join(_, _)
Join(items, sep) ==
    IF items = <<>> THEN <<>>
    ELSE IF Len(items) = 1 THEN items[1]
    ELSE items[1] \o sep \o Join(Tail(items), sep)

\* s.split(c) for a one-character separator: always at least one piece.
Split(s, c) ==
    LET pos == {i \in 1..Len(s) : s[i] = c}
        \* the k-th separator position; 0 before the first, Len(s) + 1 after the last
        cut(k) == IF k = 0 THEN 0
                  ELSE IF k > Cardinality(pos) THEN Len(s) + 1
                  ELSE CHOOSE i \in pos : Cardinality({j \in pos : j < i}) = k - 1
    IN  [k \in 1..(Cardinality(pos) + 1) |-> SubSeq(s, cut(k - 1) + 1, cut(k) - 1)]

\* The set of orders in which a set can be iterated.
RECURSIVE Perms(_)
Perms(S) ==
    IF S = {} THEN {<<>>}
    ELSE UNION {{<<x>> \o p : p \in Perms(S \ {x})} : x \in S}

(***************************************************************************)
(* shlex.split(line): POSIX mode, whitespace_split, no comment characters. *)
(* The result is [ok |-> TRUE, tokens |-> ...] or, where shlex raises      *)
(* ValueError (no closing quotation, no escaped character), ShlexError.    *)
(***************************************************************************)
ShlexError == [ok |-> FALSE, tokens |-> <<>>]

\* The tokenizer's state before the first character: state ' ', empty token.
ShlexStart == [st |-> "sp", est |-> "a", tok |-> <<>>, quoted |-> FALSE, out |-> <<>>]

\* shlex.read_token on one character c in state q.  q.st is shlex's state:
\* "sp" (' ', between tokens), "a" (in a word), a quote character (inside
\* quotes) or "esc" (after the escape character); q.est is escapedstate.
ShlexChar(q, c) ==
    CASE q.st = "sp" ->
           IF c \in Whitespace THEN q
           ELSE IF c = BS THEN [q EXCEPT !.st = "esc", !.est = "a"]
           ELSE IF c \in {DQ, SQ} THEN [q EXCEPT !.st = c, !.quoted = TRUE]
           ELSE [q EXCEPT !.st = "a", !.tok = <<c>>]
      [] q.st \in {DQ, SQ} ->
           IF c = q.st THEN [q EXCEPT !.st = "a"]
           ELSE IF c = BS /\ q.st = DQ THEN [q EXCEPT !.st = "esc", !.est = q.st]
           ELSE [q EXCEPT !.tok = Append(q.tok, c)]
      [] q.st = "esc" ->
           IF q.est \in {DQ, SQ} /\ c # BS /\ c # q.est
           THEN [q EXCEPT !.st = q.est, !.tok = q.tok \o <<BS, c>>]
           ELSE [q EXCEPT !.st = q.est, !.tok = Append(q.tok, c)]
      [] OTHER ->
           IF c \in Whitespace
           THEN [q EXCEPT !.st = "sp", !.tok = <<>>, !.quoted = FALSE,
                          !.out = IF q.tok # <<>> \/ q.quoted
                                  THEN Append(q.out, q.tok) ELSE q.out]
           ELSE IF c \in {DQ, SQ} THEN [q EXCEPT !.st = c, !.quoted = TRUE]
           ELSE IF c = BS THEN [q EXCEPT !.st = "esc", !.est = "a"]
           ELSE [q EXCEPT !.tok = Append(q.tok, c)]

\* The tokenizer run over s[lo..hi], left to right (folded by halves to keep
\* the evaluation shallow).
RECURSIVE ShlexRun(_, _, _, _)
ShlexRun(q, s, lo, hi) ==
    IF lo > hi THEN q
    ELSE IF lo = hi THEN ShlexChar(q, s[lo])
    ELSE LET mid == (lo + hi) \div 2
             left == ShlexRun(q, s, lo, mid)
         IN  \* the test only makes the left half be evaluated before the right
             IF left.st = "" THEN left ELSE ShlexRun(left, s, mid + 1, hi)

\* At the end of the text: an open quote or a pending escape raises.
shlex_split(line) ==
    LET q == ShlexRun(ShlexStart, line, 1, Len(line)) IN
    IF q.st \in {DQ, SQ, "esc"} THEN ShlexError
    ELSE IF q.st = "a" /\ (q.tok # <<>> \/ q.quoted)
         THEN [ok |-> TRUE, tokens |-> Append(q.out, q.tok)]
         ELSE [ok |-> TRUE, tokens |-> q.out]

(***************************************************************************)
(* IncludeGraphNode and IncludeGraph                                       *)
(*                                                                         *)
(* A node is the record of the dataclass's five fields.  The dataclass     *)
(* keeps the generated __eq__, which compares all five fields, and defines *)
(* __hash__ on the filename alone; a dict or set therefore holds two nodes *)
(* as one entry exactly when all their fields agree: record equality.      *)
(*                                                                         *)
(* A dict is its key order (insertion order) and its values.               *)
(***************************************************************************)
IncludeGraphNode(filename) ==
    [filename |-> filename, is_source_file |-> TRUE, is_system_header |-> FALSE,
     is_first_level_system_header |-> FALSE, num_in_edges |-> 0]

EmptyGraph == [keys |-> <<>>, targets |-> <<>>]

KeySet(g) == {g.keys[i] : i \in 1..Len(g.keys)}

HasKey(g, n) == n \in KeySet(g)

\* graph[n] on a plain dict whose key is present.
GetItem(g, n) == g.targets[n]

\* graph[n] = v
SetItem(g, n, v) ==
    IF HasKey(g, n)
    THEN [g EXCEPT !.targets[n] = v]
    ELSE [keys |-> Append(g.keys, n),
          targets |-> [k \in KeySet(g) \cup {n} |-> IF k = n THEN v ELSE g.targets[k]]]

\* Every node that is the target of some edge.
AllTargets(g) == UNION {g.targets[k] : k \in KeySet(g)}

\* The (source, target) pairs of a graph.
Edges(g) == {e \in KeySet(g) \X AllTargets(g) : e[2] \in g.targets[e[1]]}

(***************************************************************************)
(* The TGF encoder: includegraph.py, output_dep_graph_tgf                  *)
(***************************************************************************)
T_True == <<"T", "r", "u", "e">>
T_False == <<"F", "a", "l", "s", "e">>
K_is_source_file == <<"i", "s", "_", "s", "o", "u", "r", "c", "e", "_", "f", "i", "l", "e">>
K_is_system_header ==
    <<"i", "s", "_", "s", "y", "s", "t", "e", "m", "_", "h", "e", "a", "d", "e", "r">>
K_is_first_level_system_header ==
    <<"i", "s", "_", "f", "i", "r", "s", "t", "_", "l", "e", "v", "e", "l", "_">>
        \o <<"s", "y", "s", "t", "e", "m", "_", "h", "e", "a", "d", "e", "r">>

\* f"{b}" of a bool
FormatBool(b) == IF b THEN T_True ELSE T_False

\* "attributes aren't allowed to have commas."
NodeAttributes(node) ==
    K_is_source_file \o <<EQUALS>> \o FormatBool(node.is_source_file) \o <<COMMA, SP>>
        \o K_is_system_header \o <<EQUALS>> \o FormatBool(node.is_system_header)
        \o <<COMMA, SP>>
        \o K_is_first_level_system_header \o <<EQUALS>>
        \o FormatBool(node.is_first_level_system_header)

NodeLine(node) ==
    <<DQ>> \o node.filename \o <<DQ, TAB, DQ>> \o NodeAttributes(node) \o <<DQ>>

EdgeLine(source, target) ==
    <<DQ>> \o source.filename \o <<DQ, TAB, DQ>> \o target.filename \o <<DQ>>

SeparatorLine == <<HASH>>

RECURSIVE EdgeLinesFor(_, _)
EdgeLinesFor(source, targetOrder) ==
    IF targetOrder = <<>> THEN <<>>
    ELSE <<EdgeLine(source, Head(targetOrder))>> \o EdgeLinesFor(source, Tail(targetOrder))

\* The texts output_dep_graph_tgf can print for a graph: the keys in dict order,
\* the separator, then per key its targets in whatever order the set iterates.
RECURSIVE EdgeSections(_, _)
EdgeSections(g, i) ==
    IF i > Len(g.keys) THEN {<<>>}
    ELSE {EdgeLinesFor(g.keys[i], p) \o rest :
            p \in Perms(g.targets[g.keys[i]]), rest \in EdgeSections(g, i + 1)}

output_dep_graph_tgf(g) ==
    {[i \in 1..Len(g.keys) |-> NodeLine(g.keys[i])] \o <<SeparatorLine>> \o e :
        e \in EdgeSections(g, 1)}

(***************************************************************************)
(* The TGF decoder: tgf2graphviz.py                                        *)
(***************************************************************************)
\* ast.literal_eval on the texts the decoder can meet here: the two boolean
\* literals evaluate, anything else over the model's alphabet raises.
LiteralEvalOk(rhs) == LStrip(rhs, {SP, TAB}) \in {T_True, T_False}

literal_eval(rhs) == LStrip(rhs, {SP, TAB}) = T_True

\* setattr(node, lhs, value) where getattr(node, lhs, None) is not None.  Over
\* the texts of the model (no digits, no quoted strings on the right of "=")
\* only the three boolean fields can be named with a literal that evaluates.
SetAttr(node, lhs, value) ==
    CASE lhs = K_is_source_file -> [node EXCEPT !.is_source_file = value]
      [] lhs = K_is_system_header -> [node EXCEPT !.is_system_header = value]
      [] lhs = K_is_first_level_system_header ->
            [node EXCEPT !.is_first_level_system_header = value]
      [] OTHER -> node

KnownAttrs == {K_is_source_file, K_is_system_header, K_is_first_level_system_header}

AttrError == [filename |-> <<>>, error |-> TRUE]

\* The for loop of parse_tgf_node_list over the attribute pieces; AttrError where
\* the body raises (caught by "except BaseException", which drops the node).
RECURSIVE ApplyAttrs(_, _)
ApplyAttrs(node, pieces) ==
    IF pieces = <<>> THEN node
    ELSE LET attr == Strip(Head(pieces), Whitespace)
             parts == Split(attr, EQUALS)
         IN  IF Len(parts) # 2 THEN AttrError
             ELSE IF parts[1] \notin KnownAttrs THEN ApplyAttrs(node, Tail(pieces))
             ELSE IF ~LiteralEvalOk(parts[2]) THEN AttrError
             ELSE ApplyAttrs(SetAttr(node, parts[1], literal_eval(parts[2])), Tail(pieces))

AttrPieces(attributes) ==
    Split(Strip(Join(attributes, <<COMMA, SP>>), QuoteChars), COMMA)

\* One iteration of parse_tgf_node_list on one line:
\*   "break" at the separator, "raise" where the loop body raises outside the
\*   try block, "skip" where the attributes fail to parse, "node" otherwise.
ParseNodeLine(raw) ==
    LET line == Strip(raw, Whitespace)
        sp == shlex_split(line)
    IN  IF line # <<>> /\ Head(line) = HASH THEN [kind |-> "break"]
        ELSE IF ~sp.ok \/ sp.tokens = <<>> THEN [kind |-> "raise"]
        ELSE LET filename == Strip(sp.tokens[1], QuoteChars)
                 attributes == Tail(sp.tokens)
                 node == IF attributes = <<>> THEN IncludeGraphNode(filename)
                         ELSE ApplyAttrs(IncludeGraphNode(filename), AttrPieces(attributes))
             IN  IF node = AttrError THEN [kind |-> "skip"]
                 ELSE [kind |-> "node", node |-> node]

\* A variant of ParseEdgeLine that looks up the source only and makes a node
\* of a target path that was not declared.
ParseEdgeLine_target_unchecked(raw, nodes) ==
    LET line == Strip(raw, Whitespace)
        sp == shlex_split(line)
    IN  IF ~sp.ok \/ Len(sp.tokens) < 2 THEN [kind |-> "skip"]
        ELSE LET source == Strip(sp.tokens[1], QuoteChars)
                 target == Strip(sp.tokens[2], QuoteChars)
             IN  IF source \notin DOMAIN nodes THEN [kind |-> "skip"]
                 ELSE [kind |-> "edge", source |-> nodes[source],
                       target |-> IF target \in DOMAIN nodes THEN nodes[target]
                                  ELSE IncludeGraphNode(target)]

\* One iteration of parse_tgf_edge_list on one line: "skip" where the tokenizer
\* or the unpacking raises or an endpoint is not in nodes, "edge" otherwise.
\* nodes maps a filename to the node last declared with it.
ParseEdgeLine(raw, nodes) ==
    LET line == Strip(raw, Whitespace)
        sp == shlex_split(line)
    IN  IF ~sp.ok \/ Len(sp.tokens) < 2 THEN [kind |-> "skip"]
        ELSE LET source == Strip(sp.tokens[1], QuoteChars)
                 target == Strip(sp.tokens[2], QuoteChars)
             IN  IF source \notin DOMAIN nodes \/ target \notin DOMAIN nodes
                 THEN [kind |-> "skip"]
                 ELSE [kind |-> "edge", source |-> nodes[source], target |-> nodes[target]]

\* nodes[filename] = node
PutNode(nodes, node) ==
    [f \in DOMAIN nodes \cup {node.filename} |->
        IF f = node.filename THEN node ELSE nodes[f]]

\* parse_tgf_graph as a fold over the lines; the state is
\* [section, nodes, graph]: section "nodes" until the separator has been
\* consumed, then "edges"; "raised" when the node loop raised.
ParseStart == [section |-> "nodes", nodes |-> <<>>, graph |-> EmptyGraph]

\* A variant of the node loop that reads on past the separator.
NodeStep_past_separator(st, r) ==
    CASE r.kind = "break" -> st
      [] r.kind = "raise" -> [st EXCEPT !.section = "raised"]
      [] r.kind = "skip" -> st
      [] OTHER -> [st EXCEPT !.nodes = PutNode(st.nodes, r.node),
                              !.graph = SetItem(st.graph, r.node, {})]

\* The body of "for node in nodes_iter" for one outcome r of the node loop.
NodeStep(st, r) ==
    CASE r.kind = "break" -> [st EXCEPT !.section = "edges"]
      [] r.kind = "raise" -> [st EXCEPT !.section = "raised"]
      [] r.kind = "skip" -> st
      [] OTHER -> [st EXCEPT !.nodes = PutNode(st.nodes, r.node),
                              !.graph = SetItem(st.graph, r.node, {})]

\* The body of "for source, target in edges" for one outcome r of the edge loop.
EdgeStep(st, r) ==
    IF r.kind = "skip" THEN st
    ELSE [st EXCEPT !.graph = SetItem(st.graph, r.source,
                                       GetItem(st.graph, r.source) \cup {r.target})]

ParseStep(st, raw) ==
    IF st.section = "nodes" THEN NodeStep(st, ParseNodeLine(raw))
    ELSE IF st.section = "edges" THEN EdgeStep(st, ParseEdgeLine(raw, st.nodes))
    ELSE st

\* The state of parse_tgf_graph after its first i lines.
ParseLines(lines) ==
    LET after[i \in 0..Len(lines)] ==
            IF i = 0 THEN ParseStart ELSE ParseStep(after[i - 1], lines[i])
    IN  after[Len(lines)]

parse_tgf_graph(lines) == ParseLines(lines)

(***************************************************************************)
(* Glob matching: filtergraph.py, matches_globs, which is                  *)
(* PurePath(s).match(pattern) for some pattern of the list.                *)
(***************************************************************************)
\* fnmatch.fnmatchcase on one path segment: "*" matches any run of
\* characters, "?" any one character, every other character itself (the
\* patterns of the model hold no "[").
RECURSIVE fnmatchcase(_, _)
fnmatchcase(name, pat) ==
    IF pat = <<>> THEN name = <<>>
    ELSE IF Head(pat) = "*"
         THEN fnmatchcase(name, Tail(pat))
                \/ (name # <<>> /\ fnmatchcase(Tail(name), pat))
         ELSE /\ name # <<>>
              /\ (Head(pat) = "?" \/ Head(pat) = Head(name))
              /\ fnmatchcase(Tail(name), Tail(pat))

\* PurePath(s): the root (present iff s starts with "/") and the parts, the
\* root being the first part; empty and "." segments are dropped.
PathRoot(s) == s # <<>> /\ Head(s) = SLASH

PathParts(s) ==
    (IF PathRoot(s) THEN <<(<<SLASH>>)>> ELSE <<>>)
        \o SelectSeq(Split(s, SLASH), LAMBDA seg : seg # <<>> /\ seg # <<".">>)

\* PurePath.match: a rooted pattern must match the whole path, any other
\* pattern the trailing parts.  (An empty pattern raises; the model has none.)
PathMatch(s, pattern) ==
    LET parts == PathParts(s)
        pat == PathParts(pattern)
        pats == IF PathRoot(pattern) THEN Tail(pat) ELSE pat
        n == IF Len(pats) < Len(parts) THEN Len(pats) ELSE Len(parts)
    IN  /\ PathRoot(pattern) => PathRoot(s) /\ Len(pat) = Len(parts)
        /\ ~PathRoot(pattern) => Len(pat) <= Len(parts)
        /\ \A k \in 0..(n - 1) :
              fnmatchcase(parts[Len(parts) - k], pats[Len(pats) - k])

\* Variant: a path matches when every pattern matches it.
matches_globs_every(s, patterns) ==
    \A i \in 1..Len(patterns) : PathMatch(s, patterns[i])

matches_globs(s, patterns) ==
    \E i \in 1..Len(patterns) : PathMatch(s, patterns[i])

(***************************************************************************)
(* Graph traversal: filtergraph.py, bfs and dfs                            *)
(***************************************************************************)
\* Variant: a child is marked visited only when it is taken off the container.
RECURSIVE enqueue_children_unmarked(_, _, _)
enqueue_children_unmarked(children, container, seen) ==
    IF children = <<>> THEN [container |-> container, visited |-> seen]
    ELSE IF Head(children) \notin seen
         THEN enqueue_children_unmarked(Tail(children),
                                        Append(container, Head(children)), seen)
         ELSE enqueue_children_unmarked(Tail(children), container, seen)

\* "for child in children: if child not in visited: queue.append(child);
\* visited.add(child)" over the children in the order they are iterated.
\* The result is the container (queue or stack) and the visited set.
RECURSIVE enqueue_children(_, _, _)
enqueue_children(children, container, seen) ==
    IF children = <<>> THEN [container |-> container, visited |-> seen]
    ELSE IF Head(children) \notin seen
         THEN enqueue_children(Tail(children), Append(container, Head(children)),
                               seen \cup {Head(children)})
         ELSE enqueue_children(Tail(children), container, seen)

\* The outcomes of the loop over a set of children: one per iteration order.
EnqueueSet(children, container, seen) ==
    {enqueue_children(order, container, seen) : order \in Perms(children)}

(***************************************************************************)
(* The filtering engine: filtergraph.py                                    *)
(*                                                                         *)
(* Here a graph is the dict of a decoded TGF file whose node section names *)
(* each path once: every node object is reached through its filename       *)
(* (parse_tgf_graph's nodes dict), so a graph maps filenames to sets of    *)
(* filenames and nodes maps a filename to the fields of its object.        *)
(***************************************************************************)
F_a_cpp == <<"a", ".", "c", "p", "p">>
F_b_h == <<"b", ".", "h">>
F_string == <<"s", "t", "r", "i", "n", "g">>
F_stddef_h == <<"s", "t", "d", "d", "e", "f", ".", "h">>

\* The node section of the input files, in file order.
FilterNames == <<F_a_cpp, F_b_h, F_string, F_stddef_h>>

\* The declared node of each name: a.cpp is a source file, string a system
\* header included by non-system code, stddef.h a system header that is not.
InputNode(name) ==
    [IncludeGraphNode(name) EXCEPT
        !.is_source_file = (name = F_a_cpp),
        !.is_system_header = (name \in {F_string, F_stddef_h}),
        !.is_first_level_system_header = (name = F_string)]

\* The edge lines an input file may hold, numbered in file order.
NumPairs == Len(FilterNames) * Len(FilterNames)

PairSource(k) == FilterNames[((k - 1) \div Len(FilterNames)) + 1]

PairTarget(k) == FilterNames[((k - 1) % Len(FilterNames)) + 1]

\* At most MaxEdges edge lines per input file.
MaxEdges == 3

InputEdgeSets == {E \in SUBSET (1..NumPairs) : Cardinality(E) <= MaxEdges}

\* The text of an input file: one line per node, the separator, the edges of E.
InputText(E) ==
    [i \in 1..Len(FilterNames) |-> NodeLine(InputNode(FilterNames[i]))]
        \o <<SeparatorLine>>
        \o LET ks == SelectSeq([k \in 1..NumPairs |-> k], LAMBDA k : k \in E)
           IN  [j \in 1..Len(ks) |->
                   EdgeLine(IncludeGraphNode(PairSource(ks[j])),
                            IncludeGraphNode(PairTarget(ks[j])))]

\* The decoded graph by filename.
GraphByPath(g) ==
    [f \in {k.filename : k \in KeySet(g)} |->
        {t.filename : t \in g.targets[CHOOSE k \in KeySet(g) : k.filename = f]}]

\* The glob lists and flags the calls of the model are made with.
G_b_h == <<F_b_h>>
G_a_star == <<(<<"a", ".", "*">>)>>
G_star_h == <<(<<"*", ".", "h">>)>>
G_star == <<(<<"*">>)>>

FilterGraphArgs ==
    {[op |-> "filter_graph", globs |-> g, filter_system_headers |-> FALSE,
      filter_transitive_system_headers |-> FALSE] : g \in {<<>>, G_b_h, G_a_star}}
    \cup
    {[op |-> "filter_graph", globs |-> <<>>, filter_system_headers |-> fs,
      filter_transitive_system_headers |-> ~fs] : fs \in BOOLEAN}

FilterAllExceptArgs ==
    {[op |-> "filter_all_except", globs |-> g, filter_system_headers |-> FALSE,
      filter_transitive_system_headers |-> FALSE] : g \in {G_star_h, G_star}}

\* At most MaxCalls calls of the two operations are made in a row on one graph.
MaxCalls == 2

VARIABLES
    pc,               \* where the running call stands; "idle" between calls
    graph,            \* the IncludeGraph the call works on
    nodes,            \* the node objects by filename
    call,             \* the running (or last) call's operation and arguments
    calls,            \* how many calls were made
    entry,            \* the graph and the nodes as the running call received them
    unvisited_nodes,
    nodes_to_delete,
    nodes_to_keep,
    visited,          \* the traversal's visited set
    queue,            \* the traversal's queue
    current,          \* the node whose visitor is running
    n_visited,        \* the nested traversal's visited set
    n_queue,          \* the nested traversal's queue
    \* a traversal on its own
    t_source,         \* the node bfs or dfs was started at
    visitor,          \* which visitor it was given
    pushes,           \* how often each node was put on the queue or stack
    visits,           \* how often the visitor was called on each node
    \* the interchange format
    original,         \* the graph given to output_dep_graph_tgf
    text,             \* the lines it printed
    lineno,           \* how many of them parse_tgf_graph has read
    parse,            \* parse_tgf_graph's nodes, graph and section
    \* the graph builder
    full_system,      \* the --full-system option
    units,            \* how many translation units were started
    markers,          \* how many linemarkers with flags the running unit gave
    stack,            \* build_header_dependency_graph's stack
    building,         \* the graph it is building
    subgraphs,        \* the graphs of the finished units, as they completed
    merged,           \* merge_graphs' accumulator
    completed,        \* every unit whose worker returned: its graph and the
                      \* preprocessor's exit status, in the order of completion
    workers,          \* the futures of build_graphs_in_parallel: where each
                      \* unit's worker stands
    \* main of filtergraph.py
    m_args,           \* args: the command line options
    stage,            \* the statement of main that runs next
    paths,            \* the paths given to shorten_absolute_paths
    suffixes,         \* the dictionary it fills
    \* filter_graph called a second time
    earlier           \* the first call: what it was given and what it returned

filterVars == <<graph, nodes, call, calls, entry, unvisited_nodes, nodes_to_delete,
                nodes_to_keep, visited, queue, current, n_visited, n_queue>>

traverseVars == <<t_source, visitor, pushes, visits>>

codecVars == <<original, text, lineno, parse>>

buildVars == <<full_system, units, markers, stack, building, subgraphs, merged, completed,
               workers>>

mainVars == <<m_args, stage, paths, suffixes>>

vars == <<pc, filterVars, traverseVars, codecVars, buildVars, mainVars, earlier>>

\* The variables of the components a behaviour does not run.
NoTraversal == t_source = <<>> /\ visitor = "none" /\ pushes = <<>> /\ visits = <<>>

NoCodec == original = <<>> /\ text = <<>> /\ lineno = 0 /\ parse = <<>>

NoBuild ==
    /\ full_system = FALSE
    /\ units = 0
    /\ markers = 0
    /\ stack = <<>>
    /\ building = EmptyGraph
    /\ subgraphs = <<>>
    /\ merged = EmptyGraph
    /\ completed = <<>>
    /\ workers = <<>>

NoMain == m_args = <<>> /\ stage = "none" /\ paths = {} /\ suffixes = <<>> /\ earlier = <<>>

NoCall == [op |-> "none", globs |-> <<>>, filter_system_headers |-> FALSE,
           filter_transitive_system_headers |-> FALSE]

\* Outside a call its local variables do not exist.
Locals ==
    /\ unvisited_nodes = {}
    /\ nodes_to_delete = {}
    /\ nodes_to_keep = {}
    /\ visited = {}
    /\ queue = <<>>
    /\ current = <<>>
    /\ n_visited = {}
    /\ n_queue = <<>>

\* A call that returns leaves its local variables behind.
DropLocals ==
    /\ unvisited_nodes' = {}
    /\ nodes_to_delete' = {}
    /\ nodes_to_keep' = {}
    /\ visited' = {}
    /\ queue' = <<>>
    /\ current' = <<>>
    /\ n_visited' = {}
    /\ n_queue' = <<>>

\* main: graph = parse_tgf_graph(args.input)
InitFilter ==
    \E E \in InputEdgeSets :
        LET parsed == parse_tgf_graph(InputText(E)) IN
        /\ graph = GraphByPath(parsed.graph)
        /\ nodes = parsed.nodes
        /\ pc = "idle"
        /\ call = NoCall
        /\ calls = 0
        /\ entry = [graph |-> <<>>, nodes |-> <<>>]
        /\ Locals
        /\ NoTraversal
        /\ NoCodec
        /\ NoBuild
        /\ NoMain

\* graph.get(node, set())
GraphGet(g, node) == IF node \in DOMAIN g THEN g[node] ELSE {}

\* del graph[node]
DelItem(g, node) == [k \in (DOMAIN g) \ {node} |-> g[k]]

\* Variant: the final sweep over the edges is left out.
DropDanglingEdges_skipped(g) == g

\* for source, targets in graph.items():
\*     graph[source] = set(t for t in targets if t in graph)
DropDanglingEdges(g) == [source \in DOMAIN g |-> {t \in g[source] : t \in DOMAIN g}]

\* The removal predicate of remove_nodes_matching_glob.
Removable(node) ==
    \/ matches_globs(node, call.globs)
    \/ call.filter_system_headers /\ nodes[node].is_system_header
    \/ /\ call.filter_transitive_system_headers
       /\ nodes[node].is_system_header
       /\ ~nodes[node].is_first_level_system_header

\* A variant of the visit that leaves the node in the set.
Discard_kept(unvisited, node) == unvisited

\* unvisited_nodes.discard(node)
Discard(unvisited, node) == unvisited \ {node}

\* Variant: a node of the graph is collected whatever its count.
Collectable_any_count(node) == node \in DOMAIN graph

\* Variant: a node is collected only when nothing includes it.
Collectable_unincluded(node) == ~(nodes[node].num_in_edges > 0 \/ node \notin DOMAIN graph)

\* remove_if_not_included_by_something_else: may this node be collected?
Collectable(node) == ~(nodes[node].num_in_edges > 1 \/ node \notin DOMAIN graph)

\* A variant of the deletion that leaves the counts of the children alone.
DecrementChildren_none(ns, children) == ns

\* "for child in graph[node]: child.num_in_edges -= 1"
DecrementChildren(ns, children) ==
    [f \in DOMAIN ns |->
        IF f \in children THEN [ns[f] EXCEPT !.num_in_edges = @ - 1] ELSE ns[f]]

\* Variant: the counts are not set to zero before counting.
ResetInEdges_skipped(ns, g) == ns

\* recalculate_in_edges, first loop: node.num_in_edges = 0 for every key.
ResetInEdges(ns, g) ==
    [f \in DOMAIN ns |-> IF f \in DOMAIN g THEN [ns[f] EXCEPT !.num_in_edges = 0] ELSE ns[f]]

\* recalculate_in_edges, second loop: one increment per (source, target).
CountInEdges(ns, g) ==
    [f \in DOMAIN ns |->
        [ns[f] EXCEPT !.num_in_edges = @ + Cardinality({s \in DOMAIN g : f \in g[s]})]]

recalculate_in_edges(ns, g) == CountInEdges(ResetInEdges(ns, g), g)

\* filter_all_except after its loop: keep the marked keys, drop the dangling edges.
KeepOnly(g, keep) ==
    DropDanglingEdges([n \in {k \in DOMAIN g : k \in keep} |-> g[n]])


\* The position after a traversal step: back to the caller's loop when the queue is empty.
AfterStep(q, looping, stepping) == IF q = <<>> THEN looping ELSE stepping

\* filter_graph(graph, filter_globs, filter_system_headers, filter_transitive_system_headers)
CallFilterGraph ==
    /\ pc = "idle"
    /\ calls < MaxCalls
    /\ \E args \in FilterGraphArgs : call' = args
    /\ calls' = calls + 1
    /\ entry' = [graph |-> graph, nodes |-> nodes]
    /\ unvisited_nodes' = DOMAIN graph
    /\ nodes_to_delete' = {}
    /\ pc' = "fg_loop"
    /\ UNCHANGED <<graph, nodes, nodes_to_keep, visited, queue, current, n_visited, n_queue>>
    /\ UNCHANGED <<traverseVars, codecVars, buildVars, mainVars, earlier>>

\* while unvisited_nodes: root = next(iter(unvisited_nodes)); bfs(root, ...)
FgPickRoot ==
    /\ pc = "fg_loop"
    /\ unvisited_nodes # {}
    /\ \E root \in unvisited_nodes : queue' = <<root>>
    /\ visited' = {}
    /\ pc' = "fg_bfs"
    /\ UNCHANGED <<graph, nodes, call, calls, entry, unvisited_nodes, nodes_to_delete,
                   nodes_to_keep, current, n_visited, n_queue>>
    /\ UNCHANGED <<traverseVars, codecVars, buildVars, mainVars, earlier>>

\* One turn of bfs's loop on a node remove_nodes_matching_glob leaves alone.
FgVisitKept ==
    /\ pc = "fg_bfs"
    /\ LET node == Head(queue) IN
       /\ ~Removable(node)
       /\ unvisited_nodes' = Discard(unvisited_nodes, node)
       /\ current' = node
       /\ \E r \in EnqueueSet(GraphGet(graph, node), Tail(queue), visited \cup {node}) :
              /\ queue' = r.container
              /\ visited' = r.visited
              /\ pc' = AfterStep(r.container, "fg_loop", "fg_bfs")
    /\ UNCHANGED <<graph, nodes, call, calls, entry, nodes_to_delete, nodes_to_keep,
                   n_visited, n_queue>>
    /\ UNCHANGED <<traverseVars, codecVars, buildVars, mainVars, earlier>>

\* One turn of bfs's loop on a node to remove: remove_subtree_of_matching_node
\* starts its own traversal at the node.
FgVisitRemovable ==
    /\ pc = "fg_bfs"
    /\ LET node == Head(queue) IN
       /\ Removable(node)
       /\ unvisited_nodes' = Discard(unvisited_nodes, node)
       /\ current' = node
       /\ queue' = Tail(queue)
       /\ visited' = visited \cup {node}
       /\ n_queue' = <<node>>
       /\ n_visited' = {}
       /\ pc' = "fg_nested"
    /\ UNCHANGED <<graph, nodes, call, calls, entry, nodes_to_delete, nodes_to_keep>>
    /\ UNCHANGED <<traverseVars, codecVars, buildVars, mainVars, earlier>>

\* One turn of the nested bfs's loop: remove_if_not_included_by_something_else.
FgNestedVisit ==
    /\ pc = "fg_nested"
    /\ LET node == Head(n_queue)
           children == IF Collectable(node) THEN graph[node] ELSE {}
       IN  /\ nodes_to_delete' =
                 IF Collectable(node) THEN nodes_to_delete \cup {node} ELSE nodes_to_delete
           /\ \E r \in EnqueueSet(children, Tail(n_queue), n_visited \cup {node}) :
                  /\ n_queue' = r.container
                  /\ n_visited' = r.visited
                  /\ pc' = AfterStep(r.container, "fg_delete", "fg_nested")
    /\ UNCHANGED <<graph, nodes, call, calls, entry, unvisited_nodes, nodes_to_keep,
                   visited, queue, current>>
    /\ UNCHANGED <<traverseVars, codecVars, buildVars, mainVars, earlier>>

\* while nodes_to_delete: node = nodes_to_delete.pop(); decrement; del graph[node]
FgDelete ==
    /\ pc = "fg_delete"
    /\ nodes_to_delete # {}
    /\ \E node \in nodes_to_delete :
           /\ node \in DOMAIN graph
           /\ nodes_to_delete' = nodes_to_delete \ {node}
           /\ nodes' = DecrementChildren(nodes, graph[node])
           /\ graph' = DelItem(graph, node)
    /\ UNCHANGED <<pc, call, calls, entry, unvisited_nodes, nodes_to_keep, visited, queue,
                   current, n_visited, n_queue>>
    /\ UNCHANGED <<traverseVars, codecVars, buildVars, mainVars, earlier>>

\* remove_nodes_matching_glob returns graph.get(node, set()); bfs enqueues it.
FgAfterRemoval ==
    /\ pc = "fg_delete"
    /\ nodes_to_delete = {}
    /\ \E r \in EnqueueSet(GraphGet(graph, current), queue, visited) :
           /\ queue' = r.container
           /\ visited' = r.visited
           /\ pc' = AfterStep(r.container, "fg_loop", "fg_bfs")
    /\ UNCHANGED <<graph, nodes, call, calls, entry, unvisited_nodes, nodes_to_delete,
                   nodes_to_keep, current, n_visited, n_queue>>
    /\ UNCHANGED <<traverseVars, codecVars, buildVars, mainVars, earlier>>

\* The loop is over: the dangling edges are dropped and the graph returned.
FgReturn ==
    /\ pc = "fg_loop"
    /\ unvisited_nodes = {}
    /\ graph' = DropDanglingEdges(graph)
    /\ pc' = "idle"
    /\ DropLocals
    /\ UNCHANGED <<nodes, call, calls, entry>>
    /\ UNCHANGED <<traverseVars, codecVars, buildVars, mainVars, earlier>>

\* filter_all_except(graph, keep_only_globs)
CallFilterAllExcept ==
    /\ pc = "idle"
    /\ calls < MaxCalls
    /\ \E args \in FilterAllExceptArgs : call' = args
    /\ calls' = calls + 1
    /\ entry' = [graph |-> graph, nodes |-> nodes]
    /\ unvisited_nodes' = DOMAIN graph
    /\ nodes_to_keep' = {}
    /\ pc' = "fae_loop"
    /\ UNCHANGED <<graph, nodes, nodes_to_delete, visited, queue, current, n_visited, n_queue>>
    /\ UNCHANGED <<traverseVars, codecVars, buildVars, mainVars, earlier>>

\* while unvisited_nodes: node = unvisited_nodes.pop(), a node matching no glob.
FaePopSkip ==
    /\ pc = "fae_loop"
    /\ \E node \in unvisited_nodes :
           /\ ~matches_globs(node, call.globs)
           /\ unvisited_nodes' = unvisited_nodes \ {node}
    /\ UNCHANGED <<pc, graph, nodes, call, calls, entry, nodes_to_delete, nodes_to_keep,
                   visited, queue, current, n_visited, n_queue>>
    /\ UNCHANGED <<traverseVars, codecVars, buildVars, mainVars, earlier>>

\* while unvisited_nodes: node = unvisited_nodes.pop(), a matching node: bfs(node, mark_as_keep)
FaePopMatch ==
    /\ pc = "fae_loop"
    /\ \E node \in unvisited_nodes :
           /\ matches_globs(node, call.globs)
           /\ unvisited_nodes' = unvisited_nodes \ {node}
           /\ queue' = <<node>>
    /\ visited' = {}
    /\ pc' = "fae_bfs"
    /\ UNCHANGED <<graph, nodes, call, calls, entry, nodes_to_delete, nodes_to_keep,
                   current, n_visited, n_queue>>
    /\ UNCHANGED <<traverseVars, codecVars, buildVars, mainVars, earlier>>

\* Variant: mark_as_keep hands no children back.
mark_as_keep_children_none(g, node) == {}

\* mark_as_keep: the children the visitor hands back to bfs.
mark_as_keep_children(g, node) == g[node]

\* One turn of bfs's loop with mark_as_keep.
FaeVisit ==
    /\ pc = "fae_bfs"
    /\ LET node == Head(queue) IN
       /\ node \in DOMAIN graph
       /\ unvisited_nodes' = unvisited_nodes \ {node}
       /\ nodes_to_keep' = nodes_to_keep \cup {node}
       /\ current' = node
       /\ \E r \in EnqueueSet(mark_as_keep_children(graph, node), Tail(queue),
                              visited \cup {node}) :
              /\ queue' = r.container
              /\ visited' = r.visited
              /\ pc' = AfterStep(r.container, "fae_loop", "fae_bfs")
    /\ UNCHANGED <<graph, nodes, call, calls, entry, nodes_to_delete, n_visited, n_queue>>
    /\ UNCHANGED <<traverseVars, codecVars, buildVars, mainVars, earlier>>

\* The loop is over: the kept subgraph is built, its in-edges recounted, and returned.
FaeReturn ==
    /\ pc = "fae_loop"
    /\ unvisited_nodes = {}
    /\ LET kept == KeepOnly(graph, nodes_to_keep) IN
       /\ graph' = kept
       /\ nodes' = recalculate_in_edges(nodes, kept)
    /\ pc' = "idle"
    /\ DropLocals
    /\ UNCHANGED <<call, calls, entry>>
    /\ UNCHANGED <<traverseVars, codecVars, buildVars, mainVars, earlier>>

NextFilter ==
    \/ CallFilterGraph
    \/ FgPickRoot
    \/ FgVisitKept
    \/ FgVisitRemovable
    \/ FgNestedVisit
    \/ FgDelete
    \/ FgAfterRemoval
    \/ FgReturn
    \/ CallFilterAllExcept
    \/ FaePopSkip
    \/ FaePopMatch
    \/ FaeVisit
    \/ FaeReturn

SpecFilter == InitFilter /\ [][NextFilter]_vars

(***************************************************************************)
(* filter_graph called twice with the same globs and flags: once more on   *)
(* the graph the first call was given, or on the graph it returned         *)
(***************************************************************************)
\* The number of distinct keys of g whose target set holds n.
InDegree(g, n) == Cardinality({s \in DOMAIN g : n \in g[s]})

\* The counts ns of the keys of g are their numbers of includers in g.
Consistent(g, ns) == \A n \in DOMAIN g : ns[n].num_in_edges = InDegree(g, n)

\* What is remembered of the first call, and which call the second one is.
FirstCall(kind) ==
    [kind |-> kind, given |-> entry, graph |-> graph, nodes |-> nodes, second |-> calls + 1]

\* The second call starts like the first, with the same arguments.
SecondCall(g, ns) ==
    /\ graph' = g
    /\ nodes' = ns
    /\ entry' = [graph |-> g, nodes |-> ns]
    /\ calls' = calls + 1
    /\ unvisited_nodes' = DOMAIN g
    /\ nodes_to_delete' = {}
    /\ pc' = "fg_loop"
    /\ UNCHANGED <<call, nodes_to_keep, visited, queue, current, n_visited, n_queue>>
    /\ UNCHANGED <<traverseVars, codecVars, buildVars, mainVars>>

\* The same input is filtered once more (another process, whose sets iterate
\* in another order): filter_graph(graph, ...) on the graph as it was given,
\* its counts being the numbers of includers.
FilterSameAgain ==
    /\ pc = "idle"
    /\ call.op = "filter_graph"
    /\ earlier = <<>>
    /\ Consistent(entry.graph, entry.nodes)
    /\ earlier' = FirstCall("same")
    /\ SecondCall(entry.graph, entry.nodes)

\* The result is filtered once more: filter_graph(filter_graph(graph, ...), ...),
\* the counts of the first graph being the numbers of includers.
FilterResultAgain ==
    /\ pc = "idle"
    /\ call.op = "filter_graph"
    /\ earlier = <<>>
    /\ Consistent(entry.graph, entry.nodes)
    /\ earlier' = FirstCall("result")
    /\ SecondCall(graph, nodes)

\* At most MaxRepeatEdges edge lines in the input file of a repeated call.
MaxRepeatEdges == 2

\* main: graph = parse_tgf_graph(args.input)
InitRepeat ==
    \E E \in {D \in InputEdgeSets : Cardinality(D) <= MaxRepeatEdges} :
        LET parsed == parse_tgf_graph(InputText(E)) IN
        /\ graph = GraphByPath(parsed.graph)
        /\ nodes = parsed.nodes
        /\ pc = "idle"
        /\ call = NoCall
        /\ calls = 0
        /\ entry = [graph |-> <<>>, nodes |-> <<>>]
        /\ Locals
        /\ NoTraversal
        /\ NoCodec
        /\ NoBuild
        /\ NoMain

NextRepeat == NextFilter \/ FilterSameAgain \/ FilterResultAgain

SpecRepeat == InitRepeat /\ [][NextRepeat]_vars

\* The calls on the same input files, their loops running on without waiting
\* for anything.
SpecFilterFair == InitRepeat /\ [][NextFilter]_vars /\ WF_vars(NextFilter)

(***************************************************************************)
(* main of filtergraph.py: the keep-only pass, the removal pass, the       *)
(* output                                                                  *)
(***************************************************************************)
\* The command lines of the model: --keep-only and --filter globs (an option
\* that is not given reads as the empty list), the two system header flags;
\* --shorten-file-paths is not given.
MainArgs ==
    {[keep_only |-> k, filter |-> f, filter_system_headers |-> fl[1],
      filter_transitive_system_headers |-> fl[2], shorten_file_paths |-> FALSE] :
        k \in {<<>>, G_star_h}, f \in {<<>>, G_b_h},
        fl \in {<<FALSE, FALSE>>, <<TRUE, FALSE>>, <<FALSE, TRUE>>}}

\* graph = parse_tgf_graph(args.input)
InitMain ==
    \E E \in InputEdgeSets :
        LET parsed == parse_tgf_graph(InputText(E)) IN
        /\ graph = GraphByPath(parsed.graph)
        /\ nodes = parsed.nodes
        /\ pc = "idle"
        /\ call = NoCall
        /\ calls = 0
        /\ entry = [graph |-> GraphByPath(parsed.graph), nodes |-> parsed.nodes]
        /\ Locals
        /\ NoTraversal
        /\ NoCodec
        /\ NoBuild
        /\ m_args \in MainArgs
        /\ stage = "keep_only"
        /\ paths = {}
        /\ suffixes = <<>>
        /\ earlier = <<>>

\* if args.keep_only: graph = filter_all_except(graph, args.keep_only)
MainKeepOnly ==
    /\ pc = "idle"
    /\ stage = "keep_only"
    /\ m_args.keep_only # <<>>
    /\ call' = [op |-> "filter_all_except", globs |-> m_args.keep_only,
                filter_system_headers |-> FALSE, filter_transitive_system_headers |-> FALSE]
    /\ calls' = calls + 1
    /\ entry' = [graph |-> graph, nodes |-> nodes]
    /\ unvisited_nodes' = DOMAIN graph
    /\ nodes_to_keep' = {}
    /\ pc' = "fae_loop"
    /\ stage' = "filter"
    /\ UNCHANGED <<graph, nodes, nodes_to_delete, visited, queue, current, n_visited, n_queue>>
    /\ UNCHANGED <<traverseVars, codecVars, buildVars, m_args, paths, suffixes, earlier>>

\* if args.keep_only: with no --keep-only the pass is skipped.
MainSkipKeepOnly ==
    /\ pc = "idle"
    /\ stage = "keep_only"
    /\ m_args.keep_only = <<>>
    /\ stage' = "filter"
    /\ UNCHANGED <<pc, filterVars, traverseVars, codecVars, buildVars, m_args, paths, suffixes, earlier>>

\* if args.filter: graph = filter_graph(graph, args.filter,
\*     args.filter_system_headers, args.filter_transitive_system_headers)
MainFilter ==
    /\ pc = "idle"
    /\ stage = "filter"
    /\ m_args.filter # <<>>
    /\ call' = [op |-> "filter_graph", globs |-> m_args.filter,
                filter_system_headers |-> m_args.filter_system_headers,
                filter_transitive_system_headers |-> m_args.filter_transitive_system_headers]
    /\ calls' = calls + 1
    /\ entry' = [graph |-> graph, nodes |-> nodes]
    /\ unvisited_nodes' = DOMAIN graph
    /\ nodes_to_delete' = {}
    /\ pc' = "fg_loop"
    /\ stage' = "output"
    /\ UNCHANGED <<graph, nodes, nodes_to_keep, visited, queue, current, n_visited, n_queue>>
    /\ UNCHANGED <<traverseVars, codecVars, buildVars, m_args, paths, suffixes, earlier>>

\* if args.filter: with no --filter the pass is skipped, whatever the flags.
MainSkipFilter ==
    /\ pc = "idle"
    /\ stage = "filter"
    /\ m_args.filter = <<>>
    /\ stage' = "output"
    /\ UNCHANGED <<pc, filterVars, traverseVars, codecVars, buildVars, m_args, paths, suffixes, earlier>>

\* if args.shorten_file_paths: ... (not given); output_dep_graph_tgf(graph, args.output)
MainOutput ==
    /\ pc = "idle"
    /\ stage = "output"
    /\ ~m_args.shorten_file_paths
    /\ stage' = "done"
    /\ UNCHANGED <<pc, filterVars, traverseVars, codecVars, buildVars, m_args, paths, suffixes, earlier>>

NextMain ==
    \/ MainKeepOnly
    \/ MainSkipKeepOnly
    \/ MainFilter
    \/ MainSkipFilter
    \/ MainOutput
    \/ FgPickRoot
    \/ FgVisitKept
    \/ FgVisitRemovable
    \/ FgNestedVisit
    \/ FgDelete
    \/ FgAfterRemoval
    \/ FgReturn
    \/ FaePopSkip
    \/ FaePopMatch
    \/ FaeVisit
    \/ FaeReturn

SpecMain == InitMain /\ [][NextMain]_vars

\* The system headers the flags of the command line select.
Selected(n) ==
    \/ m_args.filter_system_headers /\ nodes[n].is_system_header
    \/ /\ m_args.filter_transitive_system_headers
       /\ nodes[n].is_system_header
       /\ ~nodes[n].is_first_level_system_header

\* C16: with --filter-system-headers or --filter-transitive-system-headers
\* main runs the removal pass with that flag whether or not a --filter glob is
\* given; with the flag and no glob, the graph it writes is its input without
\* the system headers the flag selects.
C16_FlagsRunRemovalPass ==
    (/\ stage = "done"
     /\ m_args.filter_system_headers \/ m_args.filter_transitive_system_headers
     /\ m_args.keep_only = <<>>) =>
        /\ call.op = "filter_graph"
        /\ call.filter_system_headers = m_args.filter_system_headers
        /\ call.filter_transitive_system_headers = m_args.filter_transitive_system_headers
        /\ m_args.filter = <<>> => \A n \in DOMAIN graph : ~Selected(n)

(***************************************************************************)
(* Properties of the filtering engine                                      *)
(***************************************************************************)
\* The nodes reached from the nodes of start in zero or more edges of g.
RECURSIVE ReachableFrom(_, _)
ReachableFrom(g, start) ==
    LET more == start \cup UNION {GraphGet(g, n) : n \in start}
    IN  IF more = start THEN start ELSE ReachableFrom(g, more)

Returned(op) == pc = "idle" /\ call.op = op

\* C1: when filter_graph or filter_all_except has returned, every node in a
\* target set of the returned graph is a key of the returned graph.
C1_NoDanglingEdges ==
    (pc = "idle" /\ calls > 0) => \A s \in DOMAIN graph : graph[s] \subseteq DOMAIN graph

\* A call has returned whose input had an edge from a surviving node to a removed one.
C1_Witness ==
    /\ pc = "idle"
    /\ calls > 0
    /\ \E s \in DOMAIN graph : ~(entry.graph[s] \subseteq DOMAIN graph)

\* C2: filter_graph on a freshly decoded graph never removes a node that does
\* not satisfy the removal predicate while a node that directly includes it
\* survives in the result.
C2_KeptWhileIncluderSurvives ==
    (Returned("filter_graph") /\ calls = 1) =>
        \A n \in DOMAIN entry.graph :
            (~Removable(n) /\ \E s \in DOMAIN graph : n \in entry.graph[s])
                => n \in DOMAIN graph

\* C3: right after parse_tgf_graph every node's num_in_edges is the number of
\* distinct nodes whose target set holds the node.
C3_InEdgesCountedByParser ==
    (pc = "idle" /\ calls = 0) =>
        \A n \in DOMAIN graph : nodes[n].num_in_edges = InDegree(graph, n)

\* C4: filter_all_except returns the nodes reachable from the nodes matching a
\* keep pattern, with exactly the input edges between them.
C4_KeepOnlyIsReachableSubgraph ==
    Returned("filter_all_except") =>
        LET matching == {n \in DOMAIN entry.graph : matches_globs(n, call.globs)}
            kept == ReachableFrom(entry.graph, matching)
        IN  /\ DOMAIN graph = kept
            /\ \A s \in kept : graph[s] = entry.graph[s] \cap kept

\* A keep-only call has returned that kept a node matching no pattern through
\* an edge, dropped another node and kept an edge.
C4_Witness ==
    /\ Returned("filter_all_except")
    /\ \E n \in DOMAIN graph : ~matches_globs(n, call.globs)
    /\ DOMAIN graph # DOMAIN entry.graph
    /\ \E s \in DOMAIN graph : graph[s] # {}

\* C5: when filter_all_except has returned, num_in_edges of every node of the
\* result is the number of distinct surviving nodes whose target set holds it,
\* whatever the counts were before the call.
C5_InEdgesRecounted ==
    Returned("filter_all_except") =>
        \A n \in DOMAIN graph : nodes[n].num_in_edges = InDegree(graph, n)

\* A keep-only call has returned for a node that entered it with a count that
\* is not its count in the result.
C5_Witness ==
    /\ Returned("filter_all_except")
    /\ \E n \in DOMAIN graph :
           /\ entry.nodes[n].num_in_edges > 0
           /\ entry.nodes[n].num_in_edges # nodes[n].num_in_edges

\* C6: filter_graph with no pattern and both flags false returns the nodes and
\* the edges of its input.
C6_NoFilterIsIdentity ==
    (/\ Returned("filter_graph")
     /\ call.globs = <<>>
     /\ ~call.filter_system_headers
     /\ ~call.filter_transitive_system_headers) => graph = entry.graph

\* Such a call has returned a graph with edges, a cycle among them.
C6_Witness ==
    /\ Returned("filter_graph")
    /\ call.globs = <<>>
    /\ ~call.filter_system_headers
    /\ ~call.filter_transitive_system_headers
    /\ \E s \in DOMAIN graph : \E t \in graph[s] : s \in ReachableFrom(graph, {t})

\* C15: when filter_graph has returned, no node of the returned graph
\* satisfies the removal predicate the call was made with.
C15_NoRemovableSurvives ==
    Returned("filter_graph") => \A n \in DOMAIN graph : ~Removable(n)

\* A step of the collection: the graph and the counts stay as they are.
CollectionStep == pc = "fg_nested" => graph' = graph /\ nodes' = nodes

\* A step that takes node out of the graph: the collection is over, node was
\* collected and is deleted now, the count of each of its targets goes down
\* by one and no other count and no other target set changes.
DeletionOf(node) ==
    /\ pc = "fg_delete"
    /\ n_queue = <<>>
    /\ node \in nodes_to_delete
    /\ nodes_to_delete' = nodes_to_delete \ {node}
    /\ DOMAIN graph' = DOMAIN graph \ {node}
    /\ \A s \in DOMAIN graph' : graph'[s] = graph[s]
    /\ \A f \in DOMAIN nodes :
           nodes'[f].num_in_edges
               = nodes[f].num_in_edges - (IF f \in graph[node] THEN 1 ELSE 0)

\* While filter_graph runs, keys leave the graph and counts change by
\* deletions only.
DeletionStep ==
    (call.op = "filter_graph" /\ pc # "idle" /\ (DOMAIN graph' # DOMAIN graph \/ nodes' # nodes))
        => \E node \in DOMAIN graph : DeletionOf(node)

\* C22: the nested removal pass of filter_graph has two phases: while nodes
\* are collected, the keys, the target sets and the in-edge counts stay as
\* they are; after the nested traversal each collected node is deleted once,
\* and its deletion takes one off the count of each node in its target set.
C22_TwoPhaseRemoval == [][CollectionStep /\ DeletionStep]_vars

\* A removal pass that collected several nodes has deleted one with targets
\* and has more to delete.
C22_Witness ==
    /\ pc = "fg_delete"
    /\ nodes_to_delete # {}
    /\ \E f \in DOMAIN entry.graph : f \notin DOMAIN graph /\ entry.graph[f] # {}

\* C23: when filter_graph is entered with every count equal to the number of
\* nodes that include the node, then after every removal pass and on return
\* every node in the graph has the number of nodes in the graph that include
\* it as its count.
C23_CountsStayConsistent ==
    (/\ call.op = "filter_graph"
     /\ Consistent(entry.graph, entry.nodes)
     /\ pc \in {"idle", "fg_loop", "fg_bfs"} \/ (pc = "fg_delete" /\ nodes_to_delete = {}))
        => Consistent(graph, nodes)

\* filter_graph was entered with consistent counts, one of them 2 or more,
\* and has returned a graph in which a node has fewer includers than before.
C23_Witness ==
    /\ Returned("filter_graph")
    /\ Consistent(entry.graph, entry.nodes)
    /\ \E n \in DOMAIN graph :
           /\ entry.nodes[n].num_in_edges >= 2
           /\ nodes[n].num_in_edges < entry.nodes[n].num_in_edges

\* Both calls on the same graph, given with consistent counts, have returned.
BothRuns ==
    /\ Returned("filter_graph")
    /\ earlier # <<>>
    /\ earlier.kind = "same"
    /\ calls = earlier.second

\* The two calls drew their roots in orders that left different nodes.
OrdersDisagree == BothRuns /\ DOMAIN graph # DOMAIN earlier.graph

\* C24: the result of filter_graph can depend on the order in which the roots
\* are drawn: two calls with the same globs and flags on the same graph with
\* consistent counts can leave different sets of nodes (C24_Witness is such
\* a pair of calls), and they do so only on a graph in which some node has
\* two or more includers, the count the removal rule looks at.
C24_OrderDecidesAcrossSharedNodes ==
    OrdersDisagree => \E n \in DOMAIN entry.graph : entry.nodes[n].num_in_edges >= 2

\* Two calls of filter_graph on the same graph with consistent counts and the
\* same patterns whose root orders left different sets of nodes.
C24_Witness ==
    /\ OrdersDisagree
    /\ Consistent(entry.graph, entry.nodes)
    /\ earlier.given = entry

\* d was examined by the running nested pass and was not collected.
Kept(d) ==
    /\ pc \in {"fg_nested", "fg_delete"}
    /\ d \in n_visited
    /\ \A i \in 1..Len(n_queue) : n_queue[i] # d
    /\ d \in DOMAIN graph
    /\ d \notin nodes_to_delete

\* A turn of the nested loop on a node with two or more in-edges leaves the
\* node out of nodes_to_delete and does not descend through it.
KeepsShared ==
    \A d \in DOMAIN nodes :
        (/\ pc = "fg_nested"
         /\ Head(n_queue) = d
         /\ d \in DOMAIN graph
         /\ nodes[d].num_in_edges >= 2)
            => /\ nodes_to_delete' = nodes_to_delete
               /\ n_queue' = Tail(n_queue)
               /\ Kept(d)'

\* A node the pass kept stays kept to the end of the pass, whatever is deleted.
StaysKept ==
    \A d \in DOMAIN nodes :
        (Kept(d) /\ pc' \in {"fg_nested", "fg_delete"}) => Kept(d)'

\* Every collected node is reached from the matching node through collected
\* nodes only.
CollectedFromRoot ==
    pc = "fg_nested" =>
        LET C == nodes_to_delete'
        IN  C \subseteq ReachableFrom([n \in C |-> graph[n] \cap C], {current} \cap C)

\* The pass is over and has kept d, every includer of which it deleted.
OrphanKept(d) ==
    /\ pc = "fg_delete"
    /\ nodes_to_delete = {}
    /\ Kept(d)
    /\ InDegree(graph, d) = 0
    /\ \E s \in n_visited \ DOMAIN graph : d \in GraphGet(entry.graph, s)

InFilterGraph == call.op = "filter_graph" /\ pc # "idle"

\* Every call of filter_graph returns.
FilterGraphReturns == InFilterGraph ~> pc = "idle"

\* graph[node] and del graph[node] in the deletion loop find their key;
\* remove_if_not_included_by_something_else reads graph[node] only after
\* "node not in graph", and the outer visit reads graph.get(node, set()).
NoLookupFails == pc = "fg_delete" => nodes_to_delete \subseteq DOMAIN graph

\* The first node an outer traversal visits is its root, which is in
\* unvisited_nodes and leaves it; nothing is ever put back.
RootLeavesUnvisited ==
    /\ (pc = "fg_bfs" /\ visited = {}) =>
           /\ Head(queue) \in unvisited_nodes
           /\ Head(queue) \notin unvisited_nodes'
    /\ InFilterGraph => unvisited_nodes' \subseteq unvisited_nodes

\* C29: filter_graph terminates on every finite graph, graphs with cycles and
\* graphs whose target sets name removed nodes included: every iteration of
\* the outer loop takes at least its root out of unvisited_nodes, and no key
\* lookup fails in the outer traversal, the nested collection or the deletion.
C29_FilterGraphTerminates ==
    /\ FilterGraphReturns
    /\ []NoLookupFails
    /\ [][RootLeavesUnvisited]_vars

\* The outer loop of a call on a graph with a cycle is over, and a target set
\* names a node the call removed.
C29_Witness ==
    /\ InFilterGraph
    /\ pc = "fg_loop"
    /\ unvisited_nodes = {}
    /\ \E s \in DOMAIN graph : ~(graph[s] \subseteq DOMAIN graph)
    /\ \E n \in DOMAIN entry.graph : n \in ReachableFrom(entry.graph, entry.graph[n])

\* C30: filter_graph is idempotent: called again with the same globs and
\* flags on the graph a first call returned (a call that was given consistent
\* counts), it removes no further node and no further edge.
C30_SecondCallRemovesNothing ==
    (/\ Returned("filter_graph")
     /\ earlier # <<>>
     /\ earlier.kind = "result"
     /\ calls = earlier.second
     /\ Consistent(earlier.given.graph, earlier.given.nodes))
        => graph = earlier.graph

(***************************************************************************)
(* bfs and dfs on their own                                                *)
(***************************************************************************)
TraverseNames == {F_a_cpp, F_b_h, F_string}

\* Every graph on these nodes, cycles and self-loops included.
TraverseGraphs == [TraverseNames -> SUBSET TraverseNames]

\* A visitor that is not "targets" returns a list of at most MaxReturned nodes.
MaxReturned == 2

\* The counters below stop counting at MaxCount.
MaxCount == 2

SeqsUpTo(S, n) == UNION {[1..k -> S] : k \in 0..n}

\* What the visitor may return for a node: "targets" returns graph[node], in
\* the order the set is iterated; "some" returns a list of some of the node's
\* targets, which may leave targets out and name one twice.
VisitorReturns(kind, g, node) ==
    IF kind = "targets" THEN Perms(g[node]) ELSE SeqsUpTo(g[node], MaxReturned)

Occurrences(seq, n) == Cardinality({i \in 1..Len(seq) : seq[i] = n})

Bump(count, by) == IF count + by > MaxCount THEN MaxCount ELSE count + by

\* bfs(graph, source, visitor) or dfs(graph, source, visitor) has been entered.
InitTraverse ==
    \E g \in TraverseGraphs, s \in TraverseNames, v \in {"targets", "some"},
       algorithm \in {"bfs", "dfs"} :
        /\ pc = algorithm
        /\ graph = g
        /\ t_source = s
        /\ visitor = v
        /\ visited = {}
        /\ queue = <<s>>
        /\ current = <<>>
        /\ pushes = [n \in TraverseNames |-> IF n = s THEN 1 ELSE 0]
        /\ visits = [n \in TraverseNames |-> 0]
        /\ nodes = <<>>
        /\ call = NoCall
        /\ calls = 0
        /\ entry = [graph |-> <<>>, nodes |-> <<>>]
        /\ unvisited_nodes = {}
        /\ nodes_to_delete = {}
        /\ nodes_to_keep = {}
        /\ n_visited = {}
        /\ n_queue = <<>>
        /\ NoCodec
        /\ NoBuild
        /\ NoMain

\* Variant: the node is read from the queue and left on it.
bfs_rest_unpopped(q) == q

\* queue.popleft(): what stays on the queue.
bfs_rest(q) == Tail(q)

\* stack.pop(): what stays on the stack.
dfs_rest(q) == SubSeq(q, 1, Len(q) - 1)

\* One turn of the loop: node is taken off, visited, its children put on rest.
TraverseTurn(node, rest) ==
    \E children \in VisitorReturns(visitor, graph, node) :
        LET r == enqueue_children(children, rest, visited \cup {node})
            added == SubSeq(r.container, Len(rest) + 1, Len(r.container))
        IN  /\ current' = node
            /\ queue' = r.container
            /\ visited' = r.visited
            /\ visits' = [visits EXCEPT ![node] = Bump(@, 1)]
            /\ pushes' = [n \in TraverseNames |-> Bump(pushes[n], Occurrences(added, n))]

TraverseFrame ==
    UNCHANGED <<graph, nodes, call, calls, entry, unvisited_nodes, nodes_to_delete,
                nodes_to_keep, n_visited, n_queue, t_source, visitor, codecVars, buildVars,
                mainVars, earlier>>

\* while queue: current = queue.popleft(); ...
BfsStep ==
    /\ pc = "bfs"
    /\ queue # <<>>
    /\ TraverseTurn(Head(queue), bfs_rest(queue))
    /\ pc' = pc
    /\ TraverseFrame

\* while stack: current = stack.pop(); ...
DfsStep ==
    /\ pc = "dfs"
    /\ queue # <<>>
    /\ TraverseTurn(queue[Len(queue)], dfs_rest(queue))
    /\ pc' = pc
    /\ TraverseFrame

\* The queue is empty: bfs returns.
BfsReturn ==
    /\ pc = "bfs"
    /\ queue = <<>>
    /\ pc' = "bfs_returned"
    /\ UNCHANGED <<filterVars, traverseVars, codecVars, buildVars, mainVars, earlier>>

\* The stack is empty: dfs returns.
DfsReturn ==
    /\ pc = "dfs"
    /\ queue = <<>>
    /\ pc' = "dfs_returned"
    /\ UNCHANGED <<filterVars, traverseVars, codecVars, buildVars, mainVars, earlier>>

NextTraverse == BfsStep \/ DfsStep \/ BfsReturn \/ DfsReturn

SpecTraverse == InitTraverse /\ [][NextTraverse]_vars

\* The loops run on without waiting for anything.
SpecTraverseFair == SpecTraverse /\ WF_vars(NextTraverse)

TraverseReturned == pc \in {"bfs_returned", "dfs_returned"}

\* C8: bfs and dfs put no node on the queue or stack twice and call the
\* visitor at most once per node; with the visitor that returns the node's
\* target set, the nodes visited when they return are the nodes reachable
\* from the source.
C8_EachNodeOnce ==
    /\ \A n \in DOMAIN pushes : pushes[n] <= 1 /\ visits[n] <= 1
    /\ (TraverseReturned /\ visitor = "targets") =>
           {n \in DOMAIN visits : visits[n] = 1} = ReachableFrom(graph, {t_source})

\* A traversal with the full visitor has returned from a graph where a visited
\* node has two visited includers and the source lies on a cycle.
C8_Witness ==
    /\ TraverseReturned
    /\ visitor = "targets"
    /\ \E n \in TraverseNames :
           Cardinality({s \in TraverseNames \ {n} : visits[s] = 1 /\ n \in graph[s]}) = 2
    /\ t_source \in ReachableFrom(graph, graph[t_source])

\* C9: bfs and dfs return, on every graph and from every source, when the
\* visitor returns nodes of the graph.
C9_Terminates == <>TraverseReturned

\* A traversal has returned from a source that includes itself and lies on a
\* longer cycle too.
C9_Witness ==
    /\ TraverseReturned
    /\ t_source \in graph[t_source]
    /\ \E n \in graph[t_source] \ {t_source} : t_source \in graph[n]

(***************************************************************************)
(* The interchange format: output_dep_graph_tgf, then parse_tgf_graph      *)
(***************************************************************************)
\* File names as linemarkers spell them: the compiler writes a backslash of a
\* file name as two, and the builder keeps the spelling.
N_a == <<"a">>
N_b == <<"b">>
N_c_d == <<"c", BS, BS, "d">>

CodecNames == {N_a, N_b, N_c_d}

\* The attribute values the builder gives a node: a unit root, a header, a
\* system header included by non-system code or by a system header.
CodecNodes ==
    {[IncludeGraphNode(f) EXCEPT !.is_source_file = a[1], !.is_system_header = a[2],
                                 !.is_first_level_system_header = a[3]] :
        f \in CodecNames,
        a \in {<<TRUE, FALSE, FALSE>>, <<FALSE, FALSE, FALSE>>,
               <<FALSE, TRUE, TRUE>>, <<FALSE, TRUE, FALSE>>}}

\* At most MaxCodecNodes keys in a graph that is written out.
MaxCodecNodes == 2

Range(q) == {q[i] : i \in 1..Len(q)}

\* The graphs with the keys ks, in that dict order, and edges between keys.
GraphsOn(ks) == {[keys |-> ks, targets |-> ts] : ts \in [Range(ks) -> SUBSET Range(ks)]}

\* The graphs of at most n distinct keys.
CodecGraphs(n) ==
    UNION {GraphsOn(ks) : ks \in {q \in SeqsUpTo(CodecNodes, n) :
                                     Cardinality(Range(q)) = Len(q)}}

\* main of includegraph.py is about to write a graph out.
InitCodec ==
    /\ pc = "encode"
    /\ original \in CodecGraphs(MaxCodecNodes)
    /\ text = <<>>
    /\ lineno = 0
    /\ parse = ParseStart
    /\ graph = <<>>
    /\ nodes = <<>>
    /\ call = NoCall
    /\ calls = 0
    /\ entry = [graph |-> <<>>, nodes |-> <<>>]
    /\ Locals
    /\ NoTraversal
    /\ NoBuild
    /\ NoMain

CodecFrame == UNCHANGED <<filterVars, traverseVars, buildVars, mainVars, earlier, original>>

\* output_dep_graph_tgf(graph, output)
Encode ==
    /\ pc = "encode"
    /\ text' \in output_dep_graph_tgf(original)
    /\ pc' = "decode"
    /\ UNCHANGED <<lineno, parse>>
    /\ CodecFrame

\* parse_tgf_graph: one line of the node list, the separator included.
DecodeNodeLine ==
    /\ pc = "decode"
    /\ parse.section = "nodes"
    /\ lineno < Len(text)
    /\ parse' = ParseStep(parse, text[lineno + 1])
    /\ lineno' = lineno + 1
    /\ UNCHANGED <<pc, text>>
    /\ CodecFrame

\* parse_tgf_graph: one line of the edge list.
DecodeEdgeLine ==
    /\ pc = "decode"
    /\ parse.section = "edges"
    /\ lineno < Len(text)
    /\ parse' = ParseStep(parse, text[lineno + 1])
    /\ lineno' = lineno + 1
    /\ UNCHANGED <<pc, text>>
    /\ CodecFrame

\* The lines are used up: parse_tgf_graph returns its graph.
DecodeReturn ==
    /\ pc = "decode"
    /\ parse.section \in {"nodes", "edges"}
    /\ lineno = Len(text)
    /\ pc' = "decoded"
    /\ UNCHANGED <<text, lineno, parse>>
    /\ CodecFrame

NextCodec == Encode \/ DecodeNodeLine \/ DecodeEdgeLine \/ DecodeReturn

SpecCodec == InitCodec /\ [][NextCodec]_vars

\* A node without its in-edge count.
Attributes(n) ==
    [filename |-> n.filename, is_source_file |-> n.is_source_file,
     is_system_header |-> n.is_system_header,
     is_first_level_system_header |-> n.is_first_level_system_header]

\* C7: the graph decoded from the lines written for a graph has the same nodes
\* with the same three boolean attributes, and the same edges.
C7_RoundTrip ==
    pc = "decoded" =>
        /\ {Attributes(n) : n \in KeySet(parse.graph)} = {Attributes(n) : n \in KeySet(original)}
        /\ {<<Attributes(e[1]), Attributes(e[2])>> : e \in Edges(parse.graph)}
               = {<<Attributes(e[1]), Attributes(e[2])>> : e \in Edges(original)}

(***************************************************************************)
(* parse_tgf_graph on files that were written by hand: node lines, the     *)
(* separator, and edge lines that may name paths without a node line.      *)
(***************************************************************************)
\* At most MaxNodeLines node lines and MaxEdgeLines edge lines in a file.
MaxNodeLines == 2

MaxEdgeLines == 2

ParseNames == {N_a, N_b}

\* The nodes a node line may declare.
ParseNodes ==
    {[IncludeGraphNode(f) EXCEPT !.is_source_file = a] : f \in ParseNames, a \in BOOLEAN}

\* What a file says: the nodes of its node lines and the source and target
\* paths of its edge lines, in the order of the lines.
ParseFiles(n, m) ==
    {[nodes |-> ns, edges |-> es] :
        ns \in SeqsUpTo(ParseNodes, n), es \in SeqsUpTo(ParseNames \X ParseNames, m)}

\* The lines of a file.
FileText(file) ==
    [i \in 1..Len(file.nodes) |-> NodeLine(file.nodes[i])]
        \o <<SeparatorLine>>
        \o [j \in 1..Len(file.edges) |->
               EdgeLine(IncludeGraphNode(file.edges[j][1]), IncludeGraphNode(file.edges[j][2]))]

\* main of tgf2graphviz.py or filtergraph.py is about to read a file.
InitParse ==
    /\ pc = "decode"
    /\ original \in ParseFiles(MaxNodeLines, MaxEdgeLines)
    /\ text = FileText(original)
    /\ lineno = 0
    /\ parse = ParseStart
    /\ graph = <<>>
    /\ nodes = <<>>
    /\ call = NoCall
    /\ calls = 0
    /\ entry = [graph |-> <<>>, nodes |-> <<>>]
    /\ Locals
    /\ NoTraversal
    /\ NoBuild
    /\ NoMain

NextParse == DecodeNodeLine \/ DecodeEdgeLine \/ DecodeReturn

SpecParse == InitParse /\ [][NextParse]_vars

\* The paths the node lines of the file declare.
Declared == {original.nodes[i].filename : i \in 1..Len(original.nodes)}

\* The edge lines of the file that name declared paths only, among its first n.
LinkedEdges(n) ==
    {original.edges[j] : j \in {i \in 1..n : /\ i <= Len(original.edges)
                                              /\ original.edges[i][1] \in Declared
                                              /\ original.edges[i][2] \in Declared}}

\* C20: parse_tgf_graph drops an edge line that names a path without a node
\* line and goes on: it raises nothing, the keys of its graph are the declared
\* nodes, and its edges are those of the edge lines with both paths declared.
C20_UndeclaredEdgesDropped ==
    /\ parse.section # "raised"
    /\ parse.section = "edges" =>
           /\ KeySet(parse.graph) = Range(original.nodes)
           /\ {<<e[1].filename, e[2].filename>> : e \in Edges(parse.graph)}
                  = LinkedEdges(lineno - Len(original.nodes) - 1)

\* A file was read to its end in which an edge line with an undeclared path
\* comes before an edge line that was linked.
C20_Witness ==
    /\ pc = "decoded"
    /\ Len(original.edges) = 2
    /\ original.edges[1][2] \notin Declared
    /\ original.edges[2] \in LinkedEdges(2)
    /\ Edges(parse.graph) # {}

\* The separator is the line after the file's node lines.
SeparatorAt == Len(original.nodes) + 1

\* The node loop has the first lineno lines while lineno is below the
\* separator; from the separator on the lines go to the edge loop.
SectionByLine ==
    pc \in {"decode", "decoded"} =>
        /\ parse.section = (IF lineno < SeparatorAt THEN "nodes" ELSE "edges")
        /\ Cardinality(KeySet(parse.graph))
               = Cardinality({original.nodes[i] :
                                i \in {j \in 1..Len(original.nodes) : j <= lineno}})
        /\ pc = "decoded" => lineno = Len(text)

\* One line is taken from the iterator per step, by one of the two loops.
OneLinePerStep ==
    pc = "decode" =>
        \/ lineno' = lineno + 1 /\ pc' = "decode"
        \/ lineno' = lineno /\ lineno = Len(text) /\ pc' = "decoded"

\* C21: parse_tgf_node_list takes the lines of the shared iterator up to and
\* including the first separator and none after it; the edge loop starts at
\* the line after the separator, and every edge line is read exactly once.
C21_NodeListStopsAtSeparator == []SectionByLine /\ [][OneLinePerStep]_vars

\* A file with a node line and two edge lines that were both linked was read
\* to its end.
C21_Witness ==
    /\ pc = "decoded"
    /\ Len(original.nodes) >= 1
    /\ Len(original.edges) = 2
    /\ original.edges[1] # original.edges[2]
    /\ Cardinality(Edges(parse.graph)) = 2

(***************************************************************************)
(* The graph builder: includegraph.py                                      *)
(***************************************************************************)
F_b_cpp == <<"b", ".", "c", "p", "p">>

\* The files of the compilation database, the files a file may include (a
\* source file among them) and the files the compiler treats as system headers.
BuildRoots == {F_a_cpp, F_b_cpp}

Includable == {F_b_cpp, F_b_h, F_string, F_stddef_h}

SystemHeaders == {F_string, F_stddef_h}

\* At most MaxUnits translation units, MaxMarkers linemarkers with flags per
\* unit, and includes nested MaxDepth deep.
MaxUnits == 2

MaxMarkers == 3

MaxDepth == 4

LINEMARKER_FLAG_FILE_START == 1

LINEMARKER_FLAG_FILE_END == 2

LINEMARKER_FLAG_SYSTEM_HEADER == 3

Last(q) == q[Len(q)]

\* graph[n] on a defaultdict(set): a missing key reads as the empty set.
DefaultGet(g, n) == IF HasKey(g, n) THEN g.targets[n] ELSE {}

\* The flags the compiler prints for a file it enters or returns to.
FlagsOf(filename, flag) ==
    {flag} \cup (IF filename \in SystemHeaders THEN {LINEMARKER_FLAG_SYSTEM_HEADER} ELSE {})

\* A variant of the loop body that calls every system header first-level,
\* whatever includes it.
BuildStep_first_level_any(st, filename, flags, full) ==
    LET sys == LINEMARKER_FLAG_SYSTEM_HEADER \in flags
        first_level == sys
        start == st.stack = <<>>
        current_node ==
            [filename |-> filename, is_source_file |-> start, is_system_header |-> sys,
             is_first_level_system_header |-> first_level, num_in_edges |-> 0]
        s1 == IF start
              THEN [stack |-> <<current_node>>,
                    graph |-> IF HasKey(st.graph, current_node) THEN st.graph
                              ELSE SetItem(st.graph, current_node, {})]
              ELSE st
        src == Last(s1.stack)
        added == SetItem(s1.graph, src, DefaultGet(s1.graph, src) \cup {current_node})
        s2 == IF LINEMARKER_FLAG_FILE_START \in flags
              THEN [stack |-> Append(s1.stack, current_node),
                    graph |-> IF full \/ ~sys \/ first_level
                              THEN IF HasKey(added, current_node) THEN added
                                   ELSE SetItem(added, current_node, {})
                              ELSE s1.graph]
              ELSE s1
        s3 == IF LINEMARKER_FLAG_FILE_END \in flags
              THEN [s2 EXCEPT !.stack = SubSeq(s2.stack, 1, Len(s2.stack) - 1)]
              ELSE s2
    IN  IF flags = {} THEN s1 ELSE s3

\* A variant of the loop body that records the edge and does not make the
\* target a key (without lines 288-290).
BuildStep_target_not_keyed(st, filename, flags, full) ==
    LET sys == LINEMARKER_FLAG_SYSTEM_HEADER \in flags
        first_level == sys /\ ~(st.stack # <<>> /\ Last(st.stack).is_system_header)
        start == st.stack = <<>>
        current_node ==
            [filename |-> filename, is_source_file |-> start, is_system_header |-> sys,
             is_first_level_system_header |-> first_level, num_in_edges |-> 0]
        s1 == IF start
              THEN [stack |-> <<current_node>>,
                    graph |-> IF HasKey(st.graph, current_node) THEN st.graph
                              ELSE SetItem(st.graph, current_node, {})]
              ELSE st
        src == Last(s1.stack)
        added == SetItem(s1.graph, src, DefaultGet(s1.graph, src) \cup {current_node})
        s2 == IF LINEMARKER_FLAG_FILE_START \in flags
              THEN [stack |-> Append(s1.stack, current_node),
                    graph |-> IF full \/ ~sys \/ first_level THEN added ELSE s1.graph]
              ELSE s1
        s3 == IF LINEMARKER_FLAG_FILE_END \in flags
              THEN [s2 EXCEPT !.stack = SubSeq(s2.stack, 1, Len(s2.stack) - 1)]
              ELSE s2
    IN  IF flags = {} THEN s1 ELSE s3

\* build_header_dependency_graph: the body of its loop for one linemarker,
\* from the stack and the graph st to the stack and the graph after it.
BuildStep(st, filename, flags, full) ==
    LET sys == LINEMARKER_FLAG_SYSTEM_HEADER \in flags
        first_level == sys /\ ~(st.stack # <<>> /\ Last(st.stack).is_system_header)
        start == st.stack = <<>>
        current_node ==
            [filename |-> filename, is_source_file |-> start, is_system_header |-> sys,
             is_first_level_system_header |-> first_level, num_in_edges |-> 0]
        \* if not stack: ...
        s1 == IF start
              THEN [stack |-> <<current_node>>,
                    graph |-> IF HasKey(st.graph, current_node) THEN st.graph
                              ELSE SetItem(st.graph, current_node, {})]
              ELSE st
        \* if 1 in flags: ...
        src == Last(s1.stack)
        added == SetItem(s1.graph, src, DefaultGet(s1.graph, src) \cup {current_node})
        s2 == IF LINEMARKER_FLAG_FILE_START \in flags
              THEN [stack |-> Append(s1.stack, current_node),
                    graph |-> IF full \/ ~sys \/ first_level
                              THEN IF HasKey(added, current_node) THEN added
                                   ELSE SetItem(added, current_node, {})
                              ELSE s1.graph]
              ELSE s1
        \* if 2 in flags: ...
        s3 == IF LINEMARKER_FLAG_FILE_END \in flags
              THEN [s2 EXCEPT !.stack = SubSeq(s2.stack, 1, Len(s2.stack) - 1)]
              ELSE s2
    IN  IF flags = {} THEN s1 ELSE s3

\* merge_two_graphs: the loop over rhs.items(), from its i-th key on.
RECURSIVE MergeFrom(_, _, _)
MergeFrom(result, rhs, i) ==
    IF i > Len(rhs.keys) THEN result
    ELSE MergeFrom(SetItem(result, rhs.keys[i],
                           DefaultGet(result, rhs.keys[i]) \cup rhs.targets[rhs.keys[i]]),
                   rhs, i + 1)

\* A merge that takes rhs's targets for a key of both graphs, where
\* merge_two_graphs takes the union.
merge_two_graphs_overwrite(lhs, rhs) ==
    [keys |-> lhs.keys \o SelectSeq(rhs.keys, LAMBDA k : ~HasKey(lhs, k)),
     targets |-> [k \in KeySet(lhs) \cup KeySet(rhs) |->
                     IF HasKey(rhs, k) THEN rhs.targets[k] ELSE lhs.targets[k]]]

merge_two_graphs(lhs, rhs) == MergeFrom(lhs, rhs, 1)

\* main: the options are read, no unit has been preprocessed yet.
InitBuild ==
    /\ pc = "build"
    /\ full_system \in BOOLEAN
    /\ units = 0
    /\ markers = 0
    /\ stack = <<>>
    /\ building = EmptyGraph
    /\ subgraphs = <<>>
    /\ merged = EmptyGraph
    /\ completed = <<>>
    /\ workers = <<>>
    /\ graph = <<>>
    /\ nodes = <<>>
    /\ call = NoCall
    /\ calls = 0
    /\ entry = [graph |-> <<>>, nodes |-> <<>>]
    /\ Locals
    /\ NoTraversal
    /\ NoCodec
    /\ NoMain

BuildFrame ==
    UNCHANGED <<filterVars, traverseVars, codecVars, mainVars, earlier, full_system, workers>>

\* The loop body run on a linemarker.
Linemarker(filename, flags) ==
    LET st == BuildStep([stack |-> stack, graph |-> building], filename, flags, full_system)
    IN  /\ stack' = st.stack
        /\ building' = st.graph

\* The first linemarker of a unit: its source file, without flags.
RootMarker ==
    /\ pc = "build"
    /\ stack = <<>>
    /\ units < MaxUnits
    /\ \E root \in BuildRoots : Linemarker(root, {})
    /\ units' = units + 1
    /\ markers' = 0
    /\ UNCHANGED <<pc, subgraphs, merged, completed>>
    /\ BuildFrame

\* The preprocessor enters an included file.
EnterMarker ==
    /\ pc = "build"
    /\ stack # <<>>
    /\ Len(stack) < MaxDepth
    /\ markers < MaxMarkers
    /\ \E file \in Includable : Linemarker(file, FlagsOf(file, LINEMARKER_FLAG_FILE_START))
    /\ markers' = markers + 1
    /\ UNCHANGED <<pc, units, subgraphs, merged, completed>>
    /\ BuildFrame

\* The preprocessor returns to the file that included the one it leaves.
ReturnMarker ==
    /\ pc = "build"
    /\ Len(stack) >= 2
    /\ markers < MaxMarkers
    /\ LET file == stack[Len(stack) - 1].filename
       IN  Linemarker(file, FlagsOf(file, LINEMARKER_FLAG_FILE_END))
    /\ markers' = markers + 1
    /\ UNCHANGED <<pc, units, subgraphs, merged, completed>>
    /\ BuildFrame

\* The exit statuses of the preprocessor the model tells apart.
ReturnCodes == {0, 1}

\* The preprocessor's output ends: build_graph_for_tu returns the unit's graph.
\* parse_linemarkers_from_preprocessor_output waits for the process and logs
\* an exit status other than 0.
FinishUnit ==
    /\ pc = "build"
    /\ stack # <<>>
    /\ subgraphs' = Append(subgraphs, building)
    /\ \E returncode \in ReturnCodes :
           completed' = Append(completed, [graph |-> building, returncode |-> returncode])
    /\ building' = EmptyGraph
    /\ stack' = <<>>
    /\ markers' = 0
    /\ UNCHANGED <<pc, units, merged>>
    /\ BuildFrame

\* A unit whose preprocessor prints no linemarker: its graph is empty.
SilentUnit ==
    /\ pc = "build"
    /\ stack = <<>>
    /\ units < MaxUnits
    /\ units' = units + 1
    /\ subgraphs' = Append(subgraphs, EmptyGraph)
    /\ \E returncode \in ReturnCodes :
           completed' = Append(completed, [graph |-> EmptyGraph, returncode |-> returncode])
    /\ UNCHANGED <<pc, markers, stack, building, merged>>
    /\ BuildFrame

\* A worker raises before its preprocessor printed anything: the entry has no
\* "directory" or no arguments (get_tu_linemarkers subscripts None), or the
\* compiler cannot be launched. build_graphs_in_parallel logs the failure and
\* goes on to the next future.
WorkerFails ==
    /\ pc = "build"
    /\ stack = <<>>
    /\ units < MaxUnits
    /\ units' = units + 1
    /\ UNCHANGED <<pc, markers, stack, building, subgraphs, merged, completed>>
    /\ BuildFrame

\* A worker raises while it reads the preprocessor's output (a linemarker whose
\* flags are not integers, a path that is not UTF-8): what it built is lost.
WorkerCrashes ==
    /\ pc = "build"
    /\ stack # <<>>
    /\ building' = EmptyGraph
    /\ stack' = <<>>
    /\ markers' = 0
    /\ UNCHANGED <<pc, units, subgraphs, merged, completed>>
    /\ BuildFrame

\* An entry without "file": the worker raises KeyError on entry["file"], and
\* so does the handler that logs the failure, out of build_graphs_in_parallel
\* and out of reduce.
EntryWithoutFile ==
    /\ pc = "build"
    /\ stack = <<>>
    /\ units < MaxUnits
    /\ units' = units + 1
    /\ pc' = "raised"
    /\ UNCHANGED <<markers, stack, building, subgraphs, merged, completed>>
    /\ BuildFrame

\* merge_graphs: reduce starts from the first graph that completed.
MergeFirst ==
    /\ pc = "build"
    /\ stack = <<>>
    /\ subgraphs # <<>>
    /\ merged' = Head(subgraphs)
    /\ subgraphs' = Tail(subgraphs)
    /\ pc' = IF Tail(subgraphs) = <<>> THEN "merged" ELSE "merge"
    /\ UNCHANGED <<units, markers, stack, building, completed>>
    /\ BuildFrame

\* merge_graphs: reduce merges the next graph into the result.
MergeNext ==
    /\ pc = "merge"
    /\ merged' = merge_two_graphs(merged, Head(subgraphs))
    /\ subgraphs' = Tail(subgraphs)
    /\ pc' = IF Tail(subgraphs) = <<>> THEN "merged" ELSE "merge"
    /\ UNCHANGED <<units, markers, stack, building, completed>>
    /\ BuildFrame

\* merge_graphs: no worker returned a graph (the database is empty or every
\* unit failed), and reduce raises TypeError on the empty iterable.
MergeNone ==
    /\ pc = "build"
    /\ stack = <<>>
    /\ subgraphs = <<>>
    /\ pc' = "raised"
    /\ UNCHANGED <<units, markers, stack, building, subgraphs, merged, completed>>
    /\ BuildFrame

NextBuild ==
    \/ RootMarker
    \/ EnterMarker
    \/ ReturnMarker
    \/ FinishUnit
    \/ SilentUnit
    \/ WorkerFails
    \/ WorkerCrashes
    \/ EntryWithoutFile
    \/ MergeNone
    \/ MergeFirst
    \/ MergeNext

SpecBuild == InitBuild /\ [][NextBuild]_vars

\* No two keys of g have the same path.
UniquePaths(g) == \A k1, k2 \in KeySet(g) : k1.filename = k2.filename => k1 = k2

\* C10: a graph built by build_header_dependency_graph or merged by
\* merge_graphs never has two distinct keys with the same path.
C10_IdentityByPath ==
    /\ UniquePaths(building)
    /\ \A i \in 1..Len(subgraphs) : UniquePaths(subgraphs[i])
    /\ UniquePaths(merged)

\* The graphs reduce has taken from build_graphs_in_parallel so far.
Taken == {completed[i].graph : i \in 1..(Len(completed) - Len(subgraphs))}

\* C11: the graph merge_graphs makes of the fragments it was given has the
\* union of their key sets as its key set, and under each key the union of the
\* target sets the fragments have under that key: no edge is lost and none is
\* invented.
C11_MergeIsUnion ==
    pc \in {"merge", "merged"} =>
        /\ KeySet(merged) = UNION {KeySet(g) : g \in Taken}
        /\ \A k \in KeySet(merged) :
               merged.targets[k] = UNION {g.targets[k] : g \in {h \in Taken : HasKey(h, k)}}

\* Two fragments were merged that share a key with different targets, and
\* one of them has a key the other has not.
C11_Witness ==
    /\ pc = "merged"
    /\ Len(completed) = 2
    /\ \E k \in KeySet(completed[1].graph) \cap KeySet(completed[2].graph) :
           /\ completed[1].graph.targets[k] \ completed[2].graph.targets[k] # {}
           /\ completed[2].graph.targets[k] \ completed[1].graph.targets[k] # {}
    /\ KeySet(completed[2].graph) \ KeySet(completed[1].graph) # {}

\* g holds the keys and the edges of the graphs gs, and nothing else.
IsUnionOf(g, gs) ==
    /\ KeySet(g) = UNION {KeySet(h) : h \in gs}
    /\ Edges(g) = UNION {Edges(h) : h \in gs}

\* C12: whichever units of a batch fail (a compiler that cannot be launched, a
\* malformed database entry, a worker that crashes), every unit included, the
\* pipeline of build_graphs_in_parallel and merge_graphs does not raise, and
\* the merged graph is the union of the graphs of the units that succeeded.
C12_FailuresIsolated ==
    /\ pc # "raised"
    /\ pc = "merged" => IsUnionOf(merged, {completed[i].graph : i \in 1..Len(completed)})

\* C13: a unit whose preprocessor exits with a status other than 0 leaves no
\* node and no edge in the merged graph: the merged graph is the union of the
\* graphs of the units whose preprocessor exited with 0.
C13_FailedUnitLeavesNothing ==
    pc = "merged" =>
        IsUnionOf(merged, {completed[i].graph :
                              i \in {j \in 1..Len(completed) : completed[j].returncode = 0}})

(***************************************************************************)
(* The three producers of graphs side by side: a behaviour either builds   *)
(* and merges graphs or reads a file.                                      *)
(***************************************************************************)
InitProducers == InitBuild \/ InitParse

NextProducers == NextBuild \/ NextParse

SpecProducers == InitProducers /\ [][NextProducers]_vars

\* Every target of an edge of g is a key of g (the source of an edge is the
\* key the target is stored under).
Closed(g) == \A k \in KeySet(g) : g.targets[k] \subseteq KeySet(g)

\* C14: in every graph made by build_header_dependency_graph, by merge_graphs
\* or by parse_tgf_graph, every node that is the source or the target of an
\* edge is a key of the graph.
C14_EndpointsAreKeys ==
    /\ Closed(building)
    /\ \A i \in 1..Len(subgraphs) : Closed(subgraphs[i])
    /\ Closed(merged)
    /\ pc \in {"decode", "decoded"} => Closed(parse.graph)

\* The graphs of two units were merged, and the merged graph has an edge to a
\* node that includes nothing.
C14_Witness ==
    /\ pc = "merged"
    /\ Len(completed) = 2
    /\ \E e \in Edges(merged) : e[1] # e[2] /\ merged.targets[e[2]] = {}

(***************************************************************************)
(* Shortening paths: filtergraph.py, shorten_absolute_paths                *)
(***************************************************************************)
\* PurePath(s).name: the last part, empty for a path that is only a root.
PathName(s) ==
    LET parts == PathParts(s)
    IN  IF parts = <<>> \/ (Len(parts) = 1 /\ PathRoot(s)) THEN <<>> ELSE Last(parts)

\* str(PurePath) of the parts: the root is not followed by a separator.
PathStr(parts) ==
    IF parts = <<>> THEN <<".">>
    ELSE IF parts[1] = <<SLASH>> THEN <<SLASH>> \o Join(Tail(parts), <<SLASH>>)
    ELSE Join(parts, <<SLASH>>)

\* map_basenames_to_absolute: mapping[path.name].add(str(path))
map_basenames_to_absolute(ps) ==
    [basename \in {PathName(p) : p \in ps} |->
        {PathStr(PathParts(p)) : p \in {q \in ps : PathName(q) = basename}}]

\* The level-th tuple of zip(*(reversed(p.parts) ...)): the level-th part
\* from the end of every path, as a set of values.
Level(ps, level) == {PathParts(p)[Len(PathParts(p)) - level + 1] : p \in ps}

\* zip stops with the shortest path.
Shortest(ps) == CHOOSE n \in {Len(PathParts(p)) : p \in ps} :
                    \A p \in ps : n <= Len(PathParts(p))

\* shortest_unique_suffixes, "for level in path_parts": how many levels are
\* appended, from the level-th on: the walk breaks at the first level that
\* has one path only or parts that are not all equal.
RECURSIVE Levels(_, _)
Levels(ps, level) ==
    IF level >= Shortest(ps) THEN Shortest(ps)
    ELSE IF Cardinality(ps) = 1 \/ Cardinality(Level(ps, level)) # 1 THEN level
    ELSE Levels(ps, level + 1)

\* shortest_unique_suffixes: each path with its last parts, as many as levels
\* were appended (reduce(prepend_levels, ...) raises on no level at all; the
\* paths of the model have a part).
shortest_unique_suffixes(ps) ==
    LET n == Levels(ps, 1)
    IN  [p \in ps |-> PathStr(SubSeq(PathParts(p), Len(PathParts(p)) - n + 1,
                                     Len(PathParts(p))))]

\* dict.update
Update(d, e) == [k \in DOMAIN d \cup DOMAIN e |-> IF k \in DOMAIN e THEN e[k] ELSE d[k]]

\* The segments of the model's paths, and the paths of at most n parts: a
\* root or a directory, directories, a file name; and "./c", the spelling the
\* preprocessor gives a file it found through -I. .
Directories == {<<"a">>, <<"b">>}

FileNames == {<<"c">>, <<"d">>}

RECURSIVE PartsOf(_)
PartsOf(n) ==
    IF n = 1 THEN {<<f>> : f \in FileNames}
    ELSE IF n = 2 THEN {<<d>> \o q : d \in Directories \cup {<<SLASH>>}, q \in PartsOf(1)}
    ELSE {<<d, q[1]>> \o Tail(q) : d \in Directories \cup {<<SLASH>>},
                                   q \in {r \in PartsOf(n - 1) : r[1] # <<SLASH>>}}

ShortenPool(n) ==
    {PathStr(q) : q \in UNION {PartsOf(k) : k \in 1..n}} \cup {<<".", SLASH, "c">>}

\* At most MaxPaths paths of at most MaxParts parts are shortened at once.
MaxPaths == 3

MaxParts == 3

\* shorten_absolute_paths(paths) has been entered.
InitShorten ==
    /\ pc = "shorten"
    /\ paths \in {ps \in SUBSET ShortenPool(MaxParts) : ps # {} /\ Cardinality(ps) <= MaxPaths}
    /\ suffixes = <<>>
    /\ m_args = <<>>
    /\ stage = "none"
    /\ earlier = <<>>
    /\ graph = <<>>
    /\ nodes = <<>>
    /\ call = NoCall
    /\ calls = 0
    /\ entry = [graph |-> <<>>, nodes |-> <<>>]
    /\ Locals
    /\ NoTraversal
    /\ NoCodec
    /\ NoBuild

ShortenFrame == UNCHANGED <<filterVars, traverseVars, codecVars, buildVars, m_args, stage, paths, earlier>>

\* The basenames the loop over multiple_occurrences.items() has not had yet.
Pending ==
    {b \in DOMAIN map_basenames_to_absolute(paths) :
        ~(map_basenames_to_absolute(paths)[b] \subseteq DOMAIN suffixes)}

\* if len(occurrences) == 1: suffixes[absolute] = basename
ShortenSingle ==
    /\ pc = "shorten"
    /\ \E basename \in Pending :
           LET occurrences == map_basenames_to_absolute(paths)[basename]
           IN  /\ Cardinality(occurrences) = 1
               /\ suffixes' = Update(suffixes, [absolute \in occurrences |-> basename])
    /\ UNCHANGED pc
    /\ ShortenFrame

\* else: suffixes.update(shortest_unique_suffixes(occurrences))
ShortenSeveral ==
    /\ pc = "shorten"
    /\ \E basename \in Pending :
           LET occurrences == map_basenames_to_absolute(paths)[basename]
           IN  /\ Cardinality(occurrences) # 1
               /\ suffixes' = Update(suffixes, shortest_unique_suffixes(occurrences))
    /\ UNCHANGED pc
    /\ ShortenFrame

\* return suffixes
ShortenReturn ==
    /\ pc = "shorten"
    /\ Pending = {}
    /\ pc' = "shortened"
    /\ UNCHANGED suffixes
    /\ ShortenFrame

NextShorten == ShortenSingle \/ ShortenSeveral \/ ShortenReturn

SpecShorten == InitShorten /\ [][NextShorten]_vars

\* The parts of s are the last parts of p.
IsSuffixOf(s, p) ==
    /\ Len(PathParts(s)) <= Len(PathParts(p))
    /\ PathParts(s) = SubSeq(PathParts(p), Len(PathParts(p)) - Len(PathParts(s)) + 1,
                             Len(PathParts(p)))

\* The input paths with the basename of p.
SameName(p) == {q \in paths : PathName(q) = PathName(p)}

\* The walk over the paths ps came to the end of the shortest of them with
\* every level equal.
RanOut(ps) == \A level \in 1..Shortest(ps) : Cardinality(Level(ps, level)) = 1

\* C17: shorten_absolute_paths maps every input path to a suffix of itself
\* made of whole segments; a path whose basename no other input path has is
\* mapped to its basename; the paths that share a basename are mapped to
\* pairwise distinct forms, unless the walk stopped because the shortest of
\* them ran out of segments.
C17_ShortenedUnique ==
    pc = "shortened" =>
        \A p \in paths :
            /\ p \in DOMAIN suffixes
            /\ IsSuffixOf(suffixes[p], p)
            /\ SameName(p) = {p} => suffixes[p] = PathName(p)
            /\ \A q \in SameName(p) :
                   (q # p /\ q \in DOMAIN suffixes /\ ~RanOut(SameName(p)))
                       => suffixes[p] # suffixes[q]

(***************************************************************************)
(* Properties of the graph builder's system header handling                *)
(***************************************************************************)
\* The graphs the builder and the merge hold.
BuiltGraphs == {building, merged} \cup Range(subgraphs)

\* A system header that is not first-level.
Deep(n) == n.is_system_header /\ ~n.is_first_level_system_header

\* C18: without --full-system no system header that is not first-level is in
\* a built graph, neither as the target of an edge nor as a key, whatever the
\* linemarkers.
C18_NoDeepSystemHeaders ==
    ~full_system => \A g \in BuiltGraphs : \A n \in KeySet(g) \cup AllTargets(g) : ~Deep(n)

\* C19: for every edge (s, t) the builder records, t is a first-level system
\* header exactly when t is a system header and s, the file on top of the
\* stack when t was entered, is not.
C19_FirstLevelByIncluder ==
    \A g \in BuiltGraphs : \A e \in Edges(g) :
        e[2].is_first_level_system_header
            <=> (e[2].is_system_header /\ ~e[1].is_system_header)

\* A merged graph with an edge from a system header to a system header and
\* an edge from a file that is none to a system header.
C19_Witness ==
    /\ pc = "merged"
    /\ \E e \in Edges(merged) : e[1].is_system_header /\ e[2].is_system_header
    /\ \E e \in Edges(merged) : ~e[1].is_system_header /\ e[2].is_system_header

(***************************************************************************)
(* One graph for the whole project: build_header_dependency_graph on the   *)
(* stream of get_project_linemarkers, a None before the records of each    *)
(* unit                                                                    *)
(***************************************************************************)
\* A variant of the sentinel's branch that leaves the stack as it is.
ClearStack_kept(st) == st

\* if linemarker is None: stack.clear()
ClearStack(st) == <<>>

\* graph = collections.defaultdict(set); stack = []
InitProject ==
    /\ pc = "project"
    /\ full_system \in BOOLEAN
    /\ units = 0
    /\ markers = 0
    /\ stack = <<>>
    /\ building = EmptyGraph
    /\ subgraphs = <<>>
    /\ merged = EmptyGraph
    /\ completed = <<>>
    /\ workers = <<>>
    /\ graph = <<>>
    /\ nodes = <<>>
    /\ call = NoCall
    /\ calls = 0
    /\ entry = [graph |-> <<>>, nodes |-> <<>>]
    /\ Locals
    /\ NoTraversal
    /\ NoCodec
    /\ NoMain

ProjectFrame == UNCHANGED <<subgraphs, merged, completed>> /\ BuildFrame

\* yield None: the records of the next entry follow, wherever the output of
\* the previous one stopped.
Sentinel ==
    /\ pc \in {"project", "boundary"}
    /\ units < MaxUnits
    /\ stack' = ClearStack(stack)
    /\ units' = units + 1
    /\ pc' = "boundary"
    /\ UNCHANGED <<markers, building>>
    /\ ProjectFrame

\* The first record of the unit: its source file, without flags.
UnitRoot ==
    /\ pc = "boundary"
    /\ \E root \in BuildRoots : Linemarker(root, {})
    /\ pc' = "project"
    /\ markers' = 0
    /\ UNCHANGED units
    /\ ProjectFrame

\* The preprocessor enters an included file.
UnitEnter ==
    /\ pc = "project"
    /\ stack # <<>>
    /\ Len(stack) < MaxDepth
    /\ markers < MaxMarkers
    /\ \E file \in Includable : Linemarker(file, FlagsOf(file, LINEMARKER_FLAG_FILE_START))
    /\ markers' = markers + 1
    /\ UNCHANGED <<pc, units>>
    /\ ProjectFrame

\* The preprocessor returns to the file that included the one it leaves.
UnitReturn ==
    /\ pc = "project"
    /\ Len(stack) >= 2
    /\ markers < MaxMarkers
    /\ LET file == stack[Len(stack) - 1].filename
       IN  Linemarker(file, FlagsOf(file, LINEMARKER_FLAG_FILE_END))
    /\ markers' = markers + 1
    /\ UNCHANGED <<pc, units>>
    /\ ProjectFrame

\* The stream is exhausted: return graph.
ProjectReturn ==
    /\ pc \in {"project", "boundary"}
    /\ units > 0
    /\ pc' = "built"
    /\ UNCHANGED <<units, markers, stack, building>>
    /\ ProjectFrame

NextProject == Sentinel \/ UnitRoot \/ UnitEnter \/ UnitReturn \/ ProjectReturn

SpecProject == InitProject /\ [][NextProject]_vars

\* The sentinel leaves an empty stack.
SentinelClears == pc' = "boundary" => stack' = <<>>

\* The record after the sentinel is pushed alone, as a source file and a key.
RootAfterSentinel ==
    (pc = "boundary" /\ pc' = "project") =>
        /\ Len(stack') = 1
        /\ stack'[1].is_source_file
        /\ HasKey(building', stack'[1])

\* The nodes pushed since the last sentinel are the whole stack, and an edge
\* that is recorded starts at the top of it.
EdgesFromThisUnit ==
    /\ pc' = "project" => Len(stack') <= markers' + 1
    /\ \A e \in Edges(building') \ Edges(building) :
           pc = "project" /\ stack # <<>> /\ e[1] = Last(stack)

\* C26: in build_header_dependency_graph the sentinel between two units
\* empties the stack whatever its depth; the record after it is pushed as the
\* root of a unit with is_source_file = true; no edge is recorded whose source
\* is a node the previous unit left open on the stack.
C26_SentinelResetsStack == [][SentinelClears /\ RootAfterSentinel /\ EdgesFromThisUnit]_vars

\* The sentinel of the second unit has come after three records of the
\* first, each entering a file: the stack it emptied was four deep.
C26_Witness ==
    /\ pc = "boundary"
    /\ units = 2
    /\ stack = <<>>
    /\ markers = 3
    /\ Cardinality(Edges(building)) = 3

(***************************************************************************)
(* build_graphs_in_parallel and merge_graphs with workers that run side by *)
(* side: every entry is submitted at once, the futures complete in any     *)
(* order, reduce merges each graph as as_completed yields it               *)
(***************************************************************************)
\* At most MaxWorkers entries in the compilation database.
MaxWorkers == 3

\* build_header_dependency_graph on a sequence of linemarkers.
RECURSIVE BuildAll(_, _, _)
BuildAll(st, records, full) ==
    IF records = <<>> THEN st
    ELSE BuildAll(BuildStep(st, Head(records).filename, Head(records).flags, full),
                  Tail(records), full)

\* The graph of a unit whose source file root includes the files of includes,
\* each from within the one before.
FragmentOf(root, includes, full) ==
    BuildAll([stack |-> <<>>, graph |-> EmptyGraph],
             <<[filename |-> root, flags |-> {}]>>
                 \o [i \in 1..Len(includes) |->
                        [filename |-> includes[i],
                         flags |-> FlagsOf(includes[i], LINEMARKER_FLAG_FILE_START)]],
             full).graph

\* The graphs a worker of the model returns: of a unit without output, of a
\* source file alone, of a source file with one include.
Fragments(full) ==
    {EmptyGraph}
        \cup {FragmentOf(root, <<>>, full) : root \in BuildRoots}
        \cup {FragmentOf(root, <<file>>, full) : root \in BuildRoots, file \in Includable}

\* A variant of the end of as_completed that does not wait for the futures
\* still running.
AllDone_unawaited(ws) == TRUE

\* as_completed(futures) is exhausted once every future is done.
AllDone(ws) == \A i \in DOMAIN ws : ws[i] \in {"returned", "failed"}

\* main: futures = {executor.submit(build_graph_for_tu, entry, ...) for every
\* entry}; reduce has not been given a graph yet.
InitParallel ==
    /\ pc = "reduce_first"
    /\ full_system \in BOOLEAN
    /\ units \in 0..MaxWorkers
    /\ workers = [i \in 1..units |-> "running"]
    /\ markers = 0
    /\ stack = <<>>
    /\ building = EmptyGraph
    /\ subgraphs = <<>>
    /\ merged = EmptyGraph
    /\ completed = <<>>
    /\ graph = <<>>
    /\ nodes = <<>>
    /\ call = NoCall
    /\ calls = 0
    /\ entry = [graph |-> <<>>, nodes |-> <<>>]
    /\ Locals
    /\ NoTraversal
    /\ NoCodec
    /\ NoMain

ParallelFrame ==
    UNCHANGED <<filterVars, traverseVars, mainVars, earlier, full_system, units, markers,
                stack, building, original, lineno, parse>>

\* A worker returns its unit's graph: the future is done, as_completed will
\* yield it after the futures done before it.
FutureReturns ==
    /\ \E i \in DOMAIN workers :
           /\ workers[i] = "running"
           /\ workers' = [workers EXCEPT ![i] = "returned"]
           /\ \E g \in Fragments(full_system) :
                  /\ subgraphs' = Append(subgraphs, g)
                  /\ completed' = Append(completed, [graph |-> g, unit |-> i])
    /\ UNCHANGED <<pc, merged, text>>
    /\ ParallelFrame

\* A worker raises: the future is done, future.result() raises in the
\* coordinator, which logs the failure and yields nothing for it.
FutureFails ==
    /\ \E i \in DOMAIN workers :
           /\ workers[i] = "running"
           /\ workers' = [workers EXCEPT ![i] = "failed"]
    /\ UNCHANGED <<pc, subgraphs, merged, completed, text>>
    /\ ParallelFrame

\* The preprocessor of a unit never exits: the loop over proc.stdout and
\* proc.wait() do not return, and the future is never done.
FutureHangs ==
    /\ \E i \in DOMAIN workers :
           /\ workers[i] = "running"
           /\ workers' = [workers EXCEPT ![i] = "hung"]
    /\ UNCHANGED <<pc, subgraphs, merged, completed, text>>
    /\ ParallelFrame

\* reduce takes the first graph yielded as its accumulator.
ReduceFirst ==
    /\ pc = "reduce_first"
    /\ subgraphs # <<>>
    /\ merged' = Head(subgraphs)
    /\ subgraphs' = Tail(subgraphs)
    /\ pc' = "reduce"
    /\ UNCHANGED <<workers, completed, text>>
    /\ ParallelFrame

\* reduce merges the next graph yielded into the accumulator.
ReduceNext ==
    /\ pc = "reduce"
    /\ subgraphs # <<>>
    /\ merged' = merge_two_graphs(merged, Head(subgraphs))
    /\ subgraphs' = Tail(subgraphs)
    /\ UNCHANGED <<pc, workers, completed, text>>
    /\ ParallelFrame

\* as_completed is exhausted before it yielded a graph: reduce raises
\* TypeError.
ReduceEmpty ==
    /\ pc = "reduce_first"
    /\ subgraphs = <<>>
    /\ AllDone(workers)
    /\ pc' = "raised"
    /\ UNCHANGED <<workers, subgraphs, merged, completed, text>>
    /\ ParallelFrame

\* as_completed is exhausted: merge_graphs returns the accumulator.
ReduceEnd ==
    /\ pc = "reduce"
    /\ subgraphs = <<>>
    /\ AllDone(workers)
    /\ pc' = "merged"
    /\ UNCHANGED <<workers, subgraphs, merged, completed, text>>
    /\ ParallelFrame

\* main: output_dep_graph_tgf(graph, args.output)
EmitOutput ==
    /\ pc = "merged"
    /\ text' \in output_dep_graph_tgf(merged)
    /\ pc' = "emitted"
    /\ UNCHANGED <<workers, subgraphs, merged, completed>>
    /\ ParallelFrame

NextParallel ==
    \/ FutureReturns
    \/ FutureFails
    \/ FutureHangs
    \/ ReduceFirst
    \/ ReduceNext
    \/ ReduceEmpty
    \/ ReduceEnd
    \/ EmitOutput

SpecParallel == InitParallel /\ [][NextParallel]_vars

\* The merged graph exists: merge_graphs has returned, or main has printed it.
MergeComplete == pc \in {"merged", "emitted"}

\* C27: the merged graph is produced only after the worker of every unit
\* submitted has finished, by returning a graph or by failing; once a worker
\* hangs, the merge never completes and no output is ever emitted.
C27_MergeWaitsForEveryWorker ==
    /\ [](MergeComplete => \A i \in DOMAIN workers : workers[i] \in {"returned", "failed"})
    /\ \A i \in 1..MaxWorkers :
           []((i \in DOMAIN workers /\ workers[i] = "hung")
               => [](~MergeComplete /\ text = <<>>))

\* One worker hangs; the graphs of the two others are merged and reduce waits
\* for the next graph.
C27_Witness ==
    /\ pc = "reduce"
    /\ subgraphs = <<>>
    /\ Len(completed) = 2
    /\ \E i \in DOMAIN workers :
           /\ workers[i] = "hung"
           /\ \A j \in DOMAIN workers \ {i} : workers[j] = "returned"

\* functools.reduce(merge_two_graphs, subgraphs) on one graph or more.
RECURSIVE ReduceFrom(_, _)
ReduceFrom(result, rest) ==
    IF rest = <<>> THEN result
    ELSE ReduceFrom(merge_two_graphs(result, Head(rest)), Tail(rest))

merge_graphs(gs) == ReduceFrom(Head(gs), Tail(gs))

\* The same keys, and the same targets under each.
SameGraph(g, h) ==
    /\ KeySet(g) = KeySet(h)
    /\ \A k \in KeySet(g) : g.targets[k] = h.targets[k]

\* Whatever other order the workers could have completed in, merge_graphs
\* would have made the same graph of their graphs.
AnyOrderSameGraph ==
    MergeComplete =>
        \A p \in Perms(1..Len(completed)) :
            SameGraph(merge_graphs([i \in 1..Len(completed) |-> completed[p[i]].graph]),
                      merged)

\* A step of a worker leaves the accumulator alone.
WorkersLeaveAccumulator == workers' # workers => merged' = merged

\* C28: the merged graph does not depend on the order in which the workers
\* complete: for every two completion orders of the same graphs merge_graphs
\* yields the same key set and the same target set under every key; and the
\* accumulator is written by the coordinating thread only, never by a worker.
C28_CompletionOrderIrrelevant == []AnyOrderSameGraph /\ [][WorkersLeaveAccumulator]_vars

\* Three workers completed in another order than they were submitted in, two
\* of their graphs having a key in common with different targets.
C28_Witness ==
    /\ pc = "merged"
    /\ Len(completed) = 3
    /\ completed[1].unit > completed[2].unit
    /\ \E i, j \in 1..3 : \E k \in KeySet(completed[i].graph) :
           /\ HasKey(completed[j].graph, k)
           /\ completed[i].graph.targets[k] # completed[j].graph.targets[k]
====
